---- MODULE Spec2Model ----
(***************************************************************************)
(* pyodide-bridge: the code generator (type declarations, worker and hooks *)
(* emitters), the check engine that diffs regenerated artifacts against    *)
(* the files on disk, and the command-line driver that runs them over the  *)
(* configured modules.                                                     *)
(*                                                                         *)
(* Text is modelled as TLA+ strings built by concatenation, so that two    *)
(* artifacts are equal exactly when their characters are.  A file holds    *)
(* the UTF-8 encoding of the text written to it.                           *)
(***************************************************************************)
EXTENDS Integers, Sequences, FiniteSets, TLC

VARIABLES
    fs,        \* the filesystem: path -> entry (missing, directory, file)
    pysrc,     \* the Python side: the revision of each input, python3 installed
    run,       \* the CLI process: position in main(), config, exit code
    gens,      \* per artifact set: the last generation that wrote it, if intact
    lastCheck, \* arguments and outcome of the last checkGenerated call
    budget,    \* how many more environment steps and runs may happen
    pin,       \* input of the pure function under study
    pout,      \* its output, once applied
    worker,    \* the Web Worker: position in its bootstrap, the calls it has made
    pyo,       \* the usePyodide hook: its state and its current effect
    bridge,    \* a bridge hook: its api argument, its state, the calls in flight
    hist,      \* what has happened so far: status changes, settled calls
    proc,      \* a parsePythonModule call: the child process and the promise
    effects    \* usePyodide: the effects already cleaned up, with their Workers

vars == <<fs, pysrc, run, gens, lastCheck, budget, pin, pout, worker, pyo, bridge, hist, proc, effects>>

cliVars == <<fs, pysrc, run, gens, lastCheck, budget>>
pureVars == <<pin, pout>>
runtimeVars == <<worker, pyo, bridge, hist>>

----------------------------------------------------------------------------
(* Bounds of the model *)

\* nesting depth of the type references enumerated for the resolver
MaxDepth == 3
\* length of the identifiers enumerated for the hook-name transform
MaxIdentLen == 4
\* number of fields of the records enumerated for the declarations emitter
MaxFields == 2
\* number of environment steps (edits, deletions, mkdir) between CLI runs
MaxEnvSteps == 1
\* number of CLI runs
MaxRuns == 2
\* number of functions of the IRs enumerated for the hooks and worker emitters
MaxFns == 2
\* number of parameters of those functions
MaxParams == 1
\* number of times retry() is called on the usePyodide hook
MaxRetries == 1
\* number of times execute is called on a bridge hook
MaxCalls == 2

----------------------------------------------------------------------------
(* Sequence helpers *)

Range(s) == {s[i] : i \in DOMAIN s}

RECURSIVE Join(_, _)
Join(parts, sep) ==
    IF Len(parts) = 0 THEN ""
    ELSE IF Len(parts) = 1 THEN parts[1]
    ELSE parts[1] \o sep \o Join(Tail(parts), sep)

RECURSIVE Concat(_)
Concat(parts) == IF Len(parts) = 0 THEN "" ELSE parts[1] \o Concat(Tail(parts))

\* seq.map(f)
Map(f(_), s) == [i \in DOMAIN s |-> f(s[i])]

\* characters of a string, one at a time
CharAt(s, i) == SubSeq(s, i, i)

----------------------------------------------------------------------------
(* Module IR (types.ts) *)

Prim(n) == [kind |-> "primitive", name |-> n]
ListOf(e) == [kind |-> "list", element |-> e]
DictOf(k, v) == [kind |-> "dict", key |-> k, value |-> v]
OptionalOf(t) == [kind |-> "optional", inner |-> t]
LiteralOf(vs) == [kind |-> "literal", values |-> vs]
Ref(n) == [kind |-> "reference", name |-> n]

\* a literal value: a string, a number or a boolean, with its JavaScript text
StrVal(s) == [t |-> "string", v |-> s]
NumVal(s) == [t |-> "number", v |-> s]
BoolVal(s) == [t |-> "boolean", v |-> s]

Field(n, t, req) == [name |-> n, type |-> t, required |-> req]
TypedDict(n, tot, fs_) == [kind |-> "typeddict", name |-> n, total |-> tot, fields |-> fs_]
LiteralAlias(n, vs) == [kind |-> "literal", name |-> n, values |-> vs]
Param(n, t) == [name |-> n, type |-> t]
Function(n, ps, ret) == [name |-> n, params |-> ps, returnType |-> ret]
ModuleIR(n, ts, fns, pkgs) ==
    [moduleName |-> n, types |-> ts, functions |-> fns, packages |-> pkgs]

PrimitiveNames == {"int", "float", "str", "bool", "None"}

----------------------------------------------------------------------------
(* Type-reference resolver (cli/emitters): TypeRef -> TypeScript type text *)

PrimitiveMap(n) ==
    CASE n = "int" -> "number"
      [] n = "float" -> "number"
      [] n = "str" -> "string"
      [] n = "bool" -> "boolean"
      [] n = "None" -> "null"

\* a literal value as a TypeScript literal token: strings quoted, others bare
LiteralToken(val) == IF val.t = "string" THEN "\"" \o val.v \o "\"" ELSE val.v

LiteralUnion(values) == Join(Map(LiteralToken, values), " | ")

ResolveList(elem) == elem \o "[]"
ResolveDict(k, v) == "Record<" \o k \o ", " \o v \o ">"
\* an optional rendered as a union with null
ResolveOptionalNull(inner) == inner \o " | null"

ResolveOptional(inner) == inner \o " | undefined"

RECURSIVE resolveTypeRef(_)
resolveTypeRef(t) ==
    CASE t.kind = "primitive" -> PrimitiveMap(t.name)
      [] t.kind = "list" -> ResolveList(resolveTypeRef(t.element))
      [] t.kind = "dict" -> ResolveDict(resolveTypeRef(t.key), resolveTypeRef(t.value))
      [] t.kind = "optional" -> ResolveOptional(resolveTypeRef(t.inner))
      [] t.kind = "literal" -> LiteralUnion(t.values)
      [] t.kind = "reference" -> t.name

----------------------------------------------------------------------------
(* Type declarations emitter (cli/emitters/types.ts): IR -> .types.ts text *)

Banner == "// AUTO-GENERATED by pyodide-bridge. DO NOT EDIT."

\* the optional marker decided by the record's total flag or the field's flag
FieldOptionalOr(node, f) == ~node.total \/ ~f.required

\* the optional marker decided by the record's total flag alone
FieldOptionalByTotal(node, f) == ~node.total

\* whether a field is rendered with the optional marker: the field's own flag,
\* which the parser has already derived from total and Required/NotRequired
FieldOptional(node, f) == ~f.required

emitField(node, f) ==
    "  " \o f.name \o (IF FieldOptional(node, f) THEN "?" ELSE "") \o ": "
         \o resolveTypeRef(f.type) \o ";"

emitTypedDict(node) ==
    "export type " \o node.name \o " = {\n"
        \o Concat([i \in DOMAIN node.fields |-> emitField(node, node.fields[i]) \o "\n"])
        \o "};"

emitLiteralAlias(node) ==
    "export type " \o node.name \o " = " \o LiteralUnion(node.values) \o ";"

emitTypeNode(node) ==
    IF node.kind = "literal" THEN emitLiteralAlias(node) ELSE emitTypedDict(node)

emitTypes(ir) ==
    Banner \o "\n"
        \o Concat([i \in DOMAIN ir.types |-> "\n" \o emitTypeNode(ir.types[i]) \o "\n"])

----------------------------------------------------------------------------
(* Named types a signature refers to (worker and hooks emitters) *)

RECURSIVE collectRefs(_)
collectRefs(t) ==
    CASE t.kind = "reference" -> <<t.name>>
      [] t.kind = "list" -> collectRefs(t.element)
      [] t.kind = "dict" -> collectRefs(t.key) \o collectRefs(t.value)
      [] t.kind = "optional" -> collectRefs(t.inner)
      [] OTHER -> <<>>

RECURSIVE paramRefs(_)
paramRefs(ps) ==
    IF Len(ps) = 0 THEN <<>> ELSE collectRefs(ps[1].type) \o paramRefs(Tail(ps))

RECURSIVE functionRefs(_)
functionRefs(fns) ==
    IF Len(fns) = 0 THEN <<>>
    ELSE paramRefs(fns[1].params) \o collectRefs(fns[1].returnType)
             \o functionRefs(Tail(fns))

\* first occurrence of each name, in order
RECURSIVE Dedup(_)
Dedup(s) ==
    IF Len(s) = 0 THEN <<>>
    ELSE LET front == Dedup(SubSeq(s, 1, Len(s) - 1))
             last == s[Len(s)]
         IN IF last \in Range(front) THEN front ELSE Append(front, last)

\* an import list of every declared type, referenced by a signature or not
importedTypesDeclared(ir) == [i \in DOMAIN ir.types |-> ir.types[i].name]

importedTypes(ir) == Dedup(functionRefs(ir.functions))

typeImportLine(ir) ==
    IF Len(importedTypes(ir)) = 0 THEN ""
    ELSE "import type { " \o Join(importedTypes(ir), ", ") \o " } from \"./"
             \o ir.moduleName \o ".types.js\";\n"

----------------------------------------------------------------------------
(* Worker emitter (cli/emitters/worker.ts): IR, options -> .worker.ts text *)

emitParam(p) == p.name \o ": " \o resolveTypeRef(p.type)

emitMethod(fn) ==
    "  " \o fn.name \o "(" \o Join(Map(emitParam, fn.params), ", ") \o "): Promise<"
         \o resolveTypeRef(fn.returnType) \o ">;"

emitInterface(ir) ==
    "export interface BridgeAPI {\n"
        \o Concat([i \in DOMAIN ir.functions |-> emitMethod(ir.functions[i]) \o "\n"])
        \o "}\n"

\* an inline strategy that embeds the source unescaped, over two lines
sourceAcquisitionMultiline(ir, bundler) ==
    CASE bundler = "vite" ->
            "import pythonSource from \"./" \o ir.moduleName \o ".py?raw\";"
      [] bundler = "webpack" ->
            "import pythonSource from \"!!raw-loader!./" \o ir.moduleName \o ".py\";"
      [] OTHER ->
            "const pythonSource = \"<source of " \o ir.moduleName \o ".py>\n\";"

\* the one statement that depends on the bundler strategy
sourceAcquisition(ir, bundler) ==
    CASE bundler = "vite" ->
            "import pythonSource from \"./" \o ir.moduleName \o ".py?raw\";"
      [] bundler = "webpack" ->
            "import pythonSource from \"!!raw-loader!./" \o ir.moduleName \o ".py\";"
      [] OTHER ->
            "const pythonSource = \"<source of " \o ir.moduleName \o ".py>\";"

Quoted(str) == "\"" \o str \o "\""

\* JSON.stringify of a string array
packageList(pkgs) == "[" \o Join(Map(Quoted, pkgs), ",") \o "]"

emitBootstrap(ir, version) ==
    "const pyodide = await bootstrapPyodide({ pyodideVersion: \"" \o version
        \o "\", packages: " \o packageList(ir.packages) \o ", pythonSource });\n"

emitApiEntry(fn) == "  " \o fn.name \o ": bridge(pyodide, \"" \o fn.name \o "\"),"

emitExpose(ir) ==
    "const api: BridgeAPI = {\n"
        \o Concat([i \in DOMAIN ir.functions |-> emitApiEntry(ir.functions[i]) \o "\n"])
        \o "};\nComlink.expose(api);\n"

emitWorker(ir, options) ==
    Banner \o "\n"
        \o "import * as Comlink from \"comlink\";\n"
        \o "import { bootstrapPyodide } from \"pyodide-bridge/runtime\";\n"
        \o typeImportLine(ir)
        \o emitInterface(ir)
        \o sourceAcquisition(ir, options.bundler) \o "\n"
        \o emitBootstrap(ir, options.pyodideVersion)
        \o emitExpose(ir)

----------------------------------------------------------------------------
(* Hooks emitter (cli/emitters/hooks.ts): IR -> .hooks.ts text *)

LowerCase == "abcdefghijklmnopqrstuvwxyz"
UpperCase == "ABCDEFGHIJKLMNOPQRSTUVWXYZ"

\* String.prototype.toUpperCase on one character
toUpperCase(c) ==
    IF \E i \in 1..Len(LowerCase) : CharAt(LowerCase, i) = c
    THEN CharAt(UpperCase, CHOOSE i \in 1..Len(LowerCase) : CharAt(LowerCase, i) = c)
    ELSE c

\* str.split(sep): the segments between separators, empty ones included
RECURSIVE split(_, _)
split(str, sep) ==
    IF \A i \in 1..Len(str) : CharAt(str, i) # sep THEN <<str>>
    ELSE LET k == CHOOSE i \in 1..Len(str) :
                      /\ CharAt(str, i) = sep
                      /\ \A j \in 1..(i - 1) : CharAt(str, j) # sep
         IN <<SubSeq(str, 1, k - 1)>> \o split(SubSeq(str, k + 1, Len(str)), sep)

\* a capitalize that drops the rest of the segment's case with the first letter
capitalizeWhole(seg) == Concat([i \in 1..Len(seg) |-> toUpperCase(CharAt(seg, i))])

capitalize(seg) ==
    IF Len(seg) = 0 THEN "" ELSE toUpperCase(CharAt(seg, 1)) \o SubSeq(seg, 2, Len(seg))

toPascalCase(name) == Concat(Map(capitalize, split(name, "_")))

hookName(name) == "use" \o toPascalCase(name)

hookParamsType(fn) ==
    IF Len(fn.params) = 0 THEN "void"
    ELSE IF Len(fn.params) = 1 THEN resolveTypeRef(fn.params[1].type)
    ELSE "[" \o Join([i \in DOMAIN fn.params |-> resolveTypeRef(fn.params[i].type)], ", ")
             \o "]"

emitHook(fn) ==
    "export const " \o hookName(fn.name) \o " = createBridgeHook<BridgeAPI, "
        \o hookParamsType(fn) \o ", " \o resolveTypeRef(fn.returnType) \o ">(\""
        \o fn.name \o "\");"

emitHooks(ir) ==
    Banner \o "\n"
        \o "import { usePyodide, createBridgeHook } from \"pyodide-bridge/react\";\n"
        \o "import type { BridgeAPI } from \"./" \o ir.moduleName \o ".worker.js\";\n"
        \o typeImportLine(ir)
        \o "\nexport { usePyodide };\n"
        \o Concat([i \in DOMAIN ir.functions |-> "\n" \o emitHook(ir.functions[i]) \o "\n"])

----------------------------------------------------------------------------
(* Fixtures: the IRs of the repository's tests, and two more *)

StatusAlias == LiteralAlias("Status", <<StrVal("ok"), StrVal("error")>>)

\* tests/cli/check.test.ts: testIR
IR_test ==
    ModuleIR("test", <<StatusAlias>>,
             <<Function("run", <<Param("input", Prim("str"))>>, Prim("str"))>>, <<>>)

\* test.py after an edit that adds a literal value and a function
IR_test_rev2 ==
    ModuleIR("test",
             <<LiteralAlias("Status", <<StrVal("ok"), StrVal("error"), StrVal("busy")>>)>>,
             <<Function("run", <<Param("input", Prim("str"))>>, Prim("str")),
               Function("get_all_items", <<>>, ListOf(Ref("Status")))>>, <<>>)

\* tests/cli/emitters/*.test.ts: simpleIR
IR_engine ==
    ModuleIR("engine",
             <<StatusAlias,
               TypedDict("InputParams", FALSE,
                         <<Field("query", Prim("str"), TRUE),
                           Field("limit", Prim("int"), FALSE)>>),
               TypedDict("Result", TRUE,
                         <<Field("data", ListOf(Prim("float")), TRUE),
                           Field("status", Ref("Status"), TRUE)>>)>>,
             <<Function("run_query", <<Param("params", Ref("InputParams"))>>,
                        Ref("Result"))>>,
             <<"numpy">>)

\* an IR that breaks the contract: Item is declared twice, Ghost and Phantom
\* are referenced and never declared
IR_bad ==
    ModuleIR("bad",
             <<TypedDict("Item", TRUE, <<Field("owner", Ref("Ghost"), TRUE)>>),
               LiteralAlias("Item", <<NumVal("1"), BoolVal("true")>>)>>,
             <<Function("load", <<Param("id", Prim("int"))>>, OptionalOf(Ref("Phantom")))>>,
             <<>>)

----------------------------------------------------------------------------
(* Filesystem (node:fs, node:path) *)

Missing == [kind |-> "missing", bytes |-> ""]
Dir == [kind |-> "dir", bytes |-> ""]

\* text <-> stored bytes: the files are written and read as UTF-8
utf8Encode(text) == "utf8:" \o text
utf8Decode(bytes) == SubSeq(bytes, 6, Len(bytes))

File(text) == [kind |-> "file", bytes |-> utf8Encode(text)]

\* path.join(dir, name)
pathJoin(dir, name) == dir \o "/" \o name

typesPathOf(ir, outdir) == pathJoin(outdir, ir.moduleName \o ".types.ts")
workerPathOf(ir, outdir) == pathJoin(outdir, ir.moduleName \o ".worker.ts")
hooksPathOf(ir, outdir) == pathJoin(outdir, ir.moduleName \o ".hooks.ts")

\* an existence test that never says no, so that the read is always attempted
existsSyncAlways(files, path) == TRUE

existsSync(files, path) == files[path].kind # "missing"

\* fs.readFileSync(path, "utf-8"): the text; ENOENT or EISDIR thrown when the
\* path is no regular file
readThrows(files, path) == files[path].kind # "file"
readFileSync(files, path) == utf8Decode(files[path].bytes)

\* fs.writeFileSync(path, text, "utf-8"): EISDIR thrown for a directory
writeThrows(files, path) == files[path].kind = "dir"
writeFileSync(files, path, text) == [files EXCEPT ![path] = File(text)]

\* fs.mkdirSync(dir, { recursive: true }): EEXIST thrown when a regular file has the
\* name; a directory that exists is left as it is
mkdirThrows(files, dir) == files[dir].kind = "file"
mkdirSync(files, dir) == [files EXCEPT ![dir] = Dir]

----------------------------------------------------------------------------
(* Check engine (cli/check.ts) *)

\* fileMatchesContent comparing only when both texts have the same length
fileMatchesContentByLength(files, filePath, expectedContent) ==
    IF ~existsSync(files, filePath) THEN "false"
    ELSE IF readThrows(files, filePath) THEN "throw"
    ELSE IF Len(readFileSync(files, filePath)) # Len(expectedContent) THEN "true"
    ELSE IF readFileSync(files, filePath) = expectedContent THEN "true"
    ELSE "false"

\* fileMatchesContent: "true", "false", or "throw" when the read fails
fileMatchesContent(files, filePath, expectedContent) ==
    IF ~existsSync(files, filePath) THEN "false"
    ELSE IF readThrows(files, filePath) THEN "throw"
    ELSE IF readFileSync(files, filePath) = expectedContent THEN "true"
    ELSE "false"

\* comparisons that take in the hooks file whatever generateReact says
expectedArtifactsWithHooks(ir, outdir, workerOptions, generateReact) ==
    <<  <<typesPathOf(ir, outdir), emitTypes(ir)>>,
        <<workerPathOf(ir, outdir), emitWorker(ir, workerOptions)>>,
        <<hooksPathOf(ir, outdir), emitHooks(ir)>> >>

\* the comparisons checkGenerated makes, in order: <<path, expected text>>
expectedArtifacts(ir, outdir, workerOptions, generateReact) ==
    <<  <<typesPathOf(ir, outdir), emitTypes(ir)>>,
        <<workerPathOf(ir, outdir), emitWorker(ir, workerOptions)>> >>
    \o (IF generateReact THEN << <<hooksPathOf(ir, outdir), emitHooks(ir)>> >> ELSE <<>>)

\* outdatedFiles after the first n comparisons
RECURSIVE outdatedUpTo(_, _, _)
outdatedUpTo(files, arts, n) ==
    IF n = 0 THEN <<>>
    ELSE LET before == outdatedUpTo(files, arts, n - 1)
         IN IF fileMatchesContent(files, arts[n][1], arts[n][2]) = "true"
            THEN before
            ELSE Append(before, arts[n][1])

\* a check that repairs what it finds outdated
RECURSIVE checkWritesRepairing(_, _)
checkWritesRepairing(files, arts) ==
    IF Len(arts) = 0 THEN files
    ELSE LET rest == checkWritesRepairing(files, Tail(arts))
         IN IF files[arts[1][1]].kind = "file"
                  /\ utf8Decode(files[arts[1][1]].bytes) # arts[1][2]
            THEN [rest EXCEPT ![arts[1][1]] = File(arts[1][2])]
            ELSE rest

\* what the filesystem is after checkGenerated: it only reads
checkWrites(files, arts) == files

checkGenerated(files, ir, outdir, workerOptions, generateReact) ==
    LET arts == expectedArtifacts(ir, outdir, workerOptions, generateReact)
        thrown == \E i \in DOMAIN arts :
                      fileMatchesContent(files, arts[i][1], arts[i][2]) = "throw"
        outdatedFiles == IF thrown THEN <<>> ELSE outdatedUpTo(files, arts, Len(arts))
    IN [thrown |-> thrown,
        upToDate |-> ~thrown /\ Len(outdatedFiles) = 0,
        outdatedFiles |-> outdatedFiles,
        files |-> checkWrites(files, arts)]

----------------------------------------------------------------------------
(* Configuration (cli/config.ts) *)

\* a JavaScript undefined, where a string or a boolean may be absent
Undefined == "<undefined>"

\* a value that || skips: undefined or the empty string
falsy(v) == v = Undefined \/ v = ""

DEFAULT_CONFIG == [react |-> "true", bundler |-> "vite"]

ModuleConfig(input, outdir) == [input |-> input, outdir |-> outdir]

\* loadConfig returned null
NoFileConfig ==
    [present |-> FALSE, pyodideVersion |-> Undefined, modules |-> <<>>,
     react |-> Undefined, bundler |-> Undefined]

\* a config validateConfig has accepted, the defaults applied to what it omits
FileConfig(version, modules, react, bundler) ==
    [present |-> TRUE, pyodideVersion |-> version, modules |-> modules,
     react |-> IF react = Undefined THEN DEFAULT_CONFIG.react ELSE react,
     bundler |-> IF bundler = Undefined THEN DEFAULT_CONFIG.bundler ELSE bundler]

CliArgs(input, outdir, version, bundler, react) ==
    [input |-> input, outdir |-> outdir, pyodideVersion |-> version,
     bundler |-> bundler, react |-> react]

BridgeConfig(version, modules, react, bundler) ==
    [pyodideVersion |-> version, modules |-> modules, react |-> react, bundler |-> bundler]

NoBridgeConfig == BridgeConfig(Undefined, <<>>, Undefined, Undefined)

\* a || b
orElse(a, b) == IF falsy(a) THEN b ELSE a

\* the default export of a config file, before validation; Undefined for a key
\* the file does not have
RawConfig(version, modules, react, bundler) ==
    [present |-> TRUE, pyodideVersion |-> version, modules |-> modules,
     react |-> react, bundler |-> bundler]

\* no config file is found
NoRawConfig ==
    [present |-> FALSE, pyodideVersion |-> Undefined, modules |-> <<>>,
     react |-> Undefined, bundler |-> Undefined]

\* validateConfig: the checks, then { ...DEFAULT_CONFIG, ...cfg }
validateConfig(cfg) ==
    IF cfg.pyodideVersion = Undefined
    THEN [error |-> TRUE, config |-> NoFileConfig]
    ELSE IF Len(cfg.modules) = 0
    THEN [error |-> TRUE, config |-> NoFileConfig]
    ELSE IF \E i \in DOMAIN cfg.modules :
                cfg.modules[i].input = Undefined \/ cfg.modules[i].outdir = Undefined
    THEN [error |-> TRUE, config |-> NoFileConfig]
    ELSE IF cfg.bundler # Undefined /\ cfg.bundler \notin {"vite", "webpack", "inline"}
    THEN [error |-> TRUE, config |-> NoFileConfig]
    ELSE [error |-> FALSE,
          config |-> FileConfig(cfg.pyodideVersion, cfg.modules, cfg.react, cfg.bundler)]

\* loadConfig: null without a file, else the validated config or ConfigValidationError
loadConfig(raw) ==
    IF ~raw.present THEN [error |-> FALSE, config |-> NoFileConfig] ELSE validateConfig(raw)

\* a merge in which the config file wins over the command line
mergeCliArgsFileFirst(fileConfig, cliArgs) ==
    IF fileConfig.present
    THEN [error |-> FALSE,
          config |-> BridgeConfig(
              orElse(fileConfig.pyodideVersion, cliArgs.pyodideVersion),
              fileConfig.modules,
              IF fileConfig.react # Undefined THEN fileConfig.react ELSE cliArgs.react,
              orElse(fileConfig.bundler, orElse(cliArgs.bundler, DEFAULT_CONFIG.bundler)))]
    ELSE IF falsy(cliArgs.input) \/ falsy(cliArgs.outdir)
    THEN [error |-> TRUE, config |-> NoBridgeConfig]
    ELSE IF falsy(cliArgs.pyodideVersion)
    THEN [error |-> TRUE, config |-> NoBridgeConfig]
    ELSE [error |-> FALSE,
          config |-> BridgeConfig(
              cliArgs.pyodideVersion,
              <<ModuleConfig(cliArgs.input, cliArgs.outdir)>>,
              IF cliArgs.react # Undefined THEN cliArgs.react ELSE DEFAULT_CONFIG.react,
              orElse(cliArgs.bundler, DEFAULT_CONFIG.bundler))]

\* a merge in which --input and --outdir add a module to those of the config file
mergeCliArgsAddingModule(fileConfig, cliArgs) ==
    IF fileConfig.present
    THEN [error |-> FALSE,
          config |-> BridgeConfig(
              orElse(cliArgs.pyodideVersion, fileConfig.pyodideVersion),
              IF falsy(cliArgs.input) \/ falsy(cliArgs.outdir) THEN fileConfig.modules
              ELSE <<ModuleConfig(cliArgs.input, cliArgs.outdir)>> \o fileConfig.modules,
              IF cliArgs.react # Undefined THEN cliArgs.react ELSE fileConfig.react,
              orElse(cliArgs.bundler, orElse(fileConfig.bundler, DEFAULT_CONFIG.bundler)))]
    ELSE IF falsy(cliArgs.input) \/ falsy(cliArgs.outdir)
    THEN [error |-> TRUE, config |-> NoBridgeConfig]
    ELSE IF falsy(cliArgs.pyodideVersion)
    THEN [error |-> TRUE, config |-> NoBridgeConfig]
    ELSE [error |-> FALSE,
          config |-> BridgeConfig(
              cliArgs.pyodideVersion,
              <<ModuleConfig(cliArgs.input, cliArgs.outdir)>>,
              IF cliArgs.react # Undefined THEN cliArgs.react ELSE DEFAULT_CONFIG.react,
              orElse(cliArgs.bundler, DEFAULT_CONFIG.bundler))]

mergeCliArgs(fileConfig, cliArgs) ==
    IF fileConfig.present
    THEN [error |-> FALSE,
          config |-> BridgeConfig(
              orElse(cliArgs.pyodideVersion, fileConfig.pyodideVersion),
              fileConfig.modules,
              IF cliArgs.react # Undefined THEN cliArgs.react ELSE fileConfig.react,
              orElse(cliArgs.bundler, orElse(fileConfig.bundler, DEFAULT_CONFIG.bundler)))]
    ELSE IF falsy(cliArgs.input) \/ falsy(cliArgs.outdir)
    THEN [error |-> TRUE, config |-> NoBridgeConfig]
    ELSE IF falsy(cliArgs.pyodideVersion)
    THEN [error |-> TRUE, config |-> NoBridgeConfig]
    ELSE [error |-> FALSE,
          config |-> BridgeConfig(
              cliArgs.pyodideVersion,
              <<ModuleConfig(cliArgs.input, cliArgs.outdir)>>,
              IF cliArgs.react # Undefined THEN cliArgs.react ELSE DEFAULT_CONFIG.react,
              orElse(cliArgs.bundler, DEFAULT_CONFIG.bundler))]

----------------------------------------------------------------------------
(* The Python inputs and their parser (cli/python-parser.ts) *)

TestPy == "py/test.py"
BadPy == "py/bad.py"
PyInputs == {TestPy, BadPy}

OutDir == "gen"

\* revisions of test.py: 1 the tests' module, 2 after an edit, 3 a syntax error
TestPyRevisions == {1, 2, 3}

\* what parser.py prints for an input: the IR as JSON, or a failure exit code
parserOutput(input, src) ==
    IF input = BadPy THEN [code |-> 0, ir |-> IR_bad]
    ELSE IF src.rev[input] = 1 THEN [code |-> 0, ir |-> IR_test]
    ELSE IF src.rev[input] = 2 THEN [code |-> 0, ir |-> IR_test_rev2]
    ELSE [code |-> 1, ir |-> IR_test]

\* parsePythonModule: resolves with the IR or rejects
parsePythonModule(input, src) ==
    IF ~src.python3 THEN [settled |-> "PythonNotFoundError", ir |-> IR_test]
    ELSE IF parserOutput(input, src).code # 0
    THEN [settled |-> "PythonParseError", ir |-> IR_test]
    ELSE [settled |-> "resolved", ir |-> parserOutput(input, src).ir]

----------------------------------------------------------------------------
(* parsePythonModule, event by event: the child process and the promise *)

\* the JSON documents among the texts parser.py may print, and what they parse to
JsonDocuments ==
    [text \in {"{\"moduleName\":\"test\"}", "{\"moduleName\":\"bad\"}", "null"} |->
        IF text = "null" THEN "null"
        ELSE IF text = "{\"moduleName\":\"test\"}" THEN "IR_test" ELSE "IR_bad"]

\* JSON.parse(text): the value, or a SyntaxError
jsonParse(text) ==
    IF text \in DOMAIN JsonDocuments
    THEN [thrown |-> FALSE, value |-> JsonDocuments[text]]
    ELSE [thrown |-> TRUE, value |-> ""]

\* str.trim(), for the white space of the model: blanks and line ends
RECURSIVE trim(_)
trim(str) ==
    IF Len(str) = 0 THEN str
    ELSE IF SubSeq(str, 1, 1) \in {" ", "\n"} THEN trim(SubSeq(str, 2, Len(str)))
    ELSE IF SubSeq(str, Len(str), Len(str)) \in {" ", "\n"}
    THEN trim(SubSeq(str, 1, Len(str) - 1))
    ELSE str

\* what the operating system does with the spawn: spawnError is "" when python3 was
\* started; then out and err are the chunks it writes and code is its exit code
\* ("null" when a signal ended it)
ChildProcess(spawnError, out, err, code) ==
    [spawnError |-> spawnError, out |-> out, err |-> err, code |-> code]

NoProc ==
    [pc |-> "none", inputPath |-> "", child |-> ChildProcess("", <<>>, <<>>, "0"),
     outSeen |-> 0, errSeen |-> 0, errorEmitted |-> FALSE,
     stdout |-> "", stderr |-> "",
     promise |-> "pending", value |-> "", message |-> "", path |-> "", settlements |-> 0]

\* resolve(value): a promise that is settled stays as it is
resolve(p, value) ==
    IF p.promise # "pending" THEN p
    ELSE [p EXCEPT !.promise = "resolved", !.value = value, !.settlements = @ + 1]

\* reject(error), the error described by its class, message and inputPath
reject(p, class, message, path) ==
    IF p.promise # "pending" THEN p
    ELSE [p EXCEPT !.promise = class, !.message = message, !.path = path,
                   !.settlements = @ + 1]

\* lines 54-59: new Promise, spawn
spawn(inputPath, child) ==
    [NoProc EXCEPT !.pc = "spawned", !.inputPath = inputPath, !.child = child]

\* lines 64-70: the data handlers
onStdoutData(p, data) == [p EXCEPT !.stdout = @ \o data]
onStderrData(p, data) == [p EXCEPT !.stderr = @ \o data]

\* lines 72-78: proc.on("error")
onError(p, code) ==
    IF code = "ENOENT"
    THEN reject(p, "PythonNotFoundError", "python3 not found", "")
    ELSE reject(p, "Error", code, "")

\* a close handler that does not look at the exit code
onCloseIgnoringCode(p, code) ==
    LET parsed == jsonParse(p.stdout)
    IN IF parsed.thrown
       THEN reject(p, "PythonParseError",
                   "Failed to parse parser output: " \o p.stdout, p.inputPath)
       ELSE resolve(p, parsed.value)

\* lines 80-92: proc.on("close")
onClose(p, code) ==
    IF code # "0"
    THEN reject(p, "PythonParseError", trim(p.stderr), p.inputPath)
    ELSE LET parsed == jsonParse(p.stdout)
         IN IF parsed.thrown
            THEN reject(p, "PythonParseError",
                        "Failed to parse parser output: " \o p.stdout, p.inputPath)
            ELSE resolve(p, parsed.value)

----------------------------------------------------------------------------
(* The command-line driver (cli/bin.ts): main *)

\* generate mode that forgets the bundler option when it emits the worker
generatedArtifactsIgnoringBundler(ir, outdir, workerOptions, react) ==
    <<  <<pathJoin(outdir, ir.moduleName \o ".types.ts"), emitTypes(ir)>>,
        <<pathJoin(outdir, ir.moduleName \o ".worker.ts"),
          emitWorker(ir, [workerOptions EXCEPT !.bundler = "vite"])>> >>
    \o (IF react # "false"
        THEN << <<pathJoin(outdir, ir.moduleName \o ".hooks.ts"), emitHooks(ir)>> >>
        ELSE <<>>)

\* generate mode: the three writes of one module, in order
generatedArtifacts(ir, outdir, workerOptions, react) ==
    <<  <<pathJoin(outdir, ir.moduleName \o ".types.ts"), emitTypes(ir)>>,
        <<pathJoin(outdir, ir.moduleName \o ".worker.ts"), emitWorker(ir, workerOptions)>> >>
    \o (IF react # "false"
        THEN << <<pathJoin(outdir, ir.moduleName \o ".hooks.ts"), emitHooks(ir)>> >>
        ELSE <<>>)

\* writes that pass over a file they cannot write and go on with the next
RECURSIVE writeUpToSkipping(_, _, _)
writeUpToSkipping(files, arts, n) ==
    IF n = 0 THEN [files |-> files, written |-> <<>>, thrown |-> FALSE]
    ELSE LET prev == writeUpToSkipping(files, arts, n - 1)
         IN IF writeThrows(prev.files, arts[n][1]) THEN prev
            ELSE [files |-> writeFileSync(prev.files, arts[n][1], arts[n][2]),
                  written |-> Append(prev.written, arts[n][1]),
                  thrown |-> FALSE]

\* the first n writes; a write that throws ends them
RECURSIVE writeUpTo(_, _, _)
writeUpTo(files, arts, n) ==
    IF n = 0 THEN [files |-> files, written |-> <<>>, thrown |-> FALSE]
    ELSE LET prev == writeUpTo(files, arts, n - 1)
         IN IF prev.thrown THEN prev
            ELSE IF writeThrows(prev.files, arts[n][1])
            THEN [prev EXCEPT !.thrown = TRUE]
            ELSE [files |-> writeFileSync(prev.files, arts[n][1], arts[n][2]),
                  written |-> Append(prev.written, arts[n][1]),
                  thrown |-> FALSE]

\* lines 86-109: mkdirSync, then the writes
generateModule(files, ir, outdir, workerOptions, react) ==
    LET arts == generatedArtifacts(ir, outdir, workerOptions, react)
    IN IF mkdirThrows(files, outdir)
       THEN [files |-> files, written |-> <<>>, thrown |-> TRUE]
       ELSE writeUpTo(mkdirSync(files, outdir), arts, Len(arts))

workerOptionsOf(config) ==
    [pyodideVersion |-> config.pyodideVersion, bundler |-> orElse(config.bundler, "vite")]

IdleRun ==
    [pc |-> "idle", isCheck |-> FALSE, config |-> NoBridgeConfig, idx |-> 0,
     allUpToDate |-> TRUE, exitCode |-> -1, reported |-> <<>>, written |-> <<>>,
     irs |-> <<>>, message |-> ""]

\* process.exit(code), after message was printed
exitRun(r, code, message) ==
    [r EXCEPT !.pc = "exited", !.exitCode = code, !.message = message]

\* lines 112-123: after the last module
finishRun(r) ==
    IF r.isCheck /\ ~r.allUpToDate
    THEN exitRun(r, 1, "Generated files are not up-to-date.")
    ELSE IF ~r.isCheck THEN exitRun(r, 0, "Bridge files generated successfully.")
    ELSE exitRun(r, 0, "")

\* a loop that leaves at the first module found outdated
advanceStoppingAtOutdated(r) ==
    IF r.idx = Len(r.config.modules) \/ ~r.allUpToDate THEN finishRun(r)
    ELSE [r EXCEPT !.idx = @ + 1]

\* the loop's next iteration, or the end of main
advance(r) ==
    IF r.idx = Len(r.config.modules) THEN finishRun(r) ELSE [r EXCEPT !.idx = @ + 1]

----------------------------------------------------------------------------
(* State *)

ModuleNames == {"test", "bad"}

ArtifactPaths ==
    {pathJoin(OutDir, m \o k) : m \in ModuleNames, k \in {".types.ts", ".worker.ts", ".hooks.ts"}}

NoGeneration ==
    [intact |-> FALSE, ir |-> IR_test, outdir |-> "",
     workerOptions |-> [pyodideVersion |-> "", bundler |-> ""], react |-> "", paths |-> {}]

NoCheck ==
    [valid |-> FALSE, ir |-> IR_test, outdir |-> "",
     workerOptions |-> [pyodideVersion |-> "", bundler |-> ""], generateReact |-> FALSE,
     thrown |-> FALSE, upToDate |-> FALSE, outdatedFiles |-> <<>>]

\* a generation stays intact until one of the files it wrote is touched
touch(g, paths) ==
    [m \in ModuleNames |-> IF g[m].paths \cap paths # {} THEN NoGeneration ELSE g[m]]

\* the configurations and command lines the runs are started with
FileConfigs ==
    {NoFileConfig,
     FileConfig("0.26.4", <<ModuleConfig(TestPy, OutDir), ModuleConfig(BadPy, OutDir)>>,
                Undefined, "webpack")}

CommandLines ==
    {CliArgs(Undefined, Undefined, Undefined, Undefined, Undefined),
     CliArgs(TestPy, OutDir, "0.27.5", Undefined, Undefined),
     CliArgs(TestPy, OutDir, Undefined, "inline", "false"),
     CliArgs(Undefined, Undefined, Undefined, Undefined, "false")}

InitCli(python3) ==
    /\ fs = [p \in ArtifactPaths \cup {OutDir} |-> IF p = OutDir THEN Dir ELSE Missing]
    /\ pysrc = [rev |-> [i \in PyInputs |-> 1], python3 |-> python3]
    /\ run = IdleRun
    /\ gens = [m \in ModuleNames |-> NoGeneration]
    /\ lastCheck = NoCheck
    /\ budget = [env |-> MaxEnvSteps, runs |-> MaxRuns]
    /\ proc = NoProc

----------------------------------------------------------------------------
(* Actions of the command-line driver *)

\* lines 46-59: load the config, merge the command line, enter the loop
StartRun(fileConfig, cliArgs, isCheck) ==
    /\ run.pc # "loop"
    /\ budget.runs > 0
    /\ budget' = [budget EXCEPT !.runs = @ - 1]
    /\ LET merged == mergeCliArgs(fileConfig, cliArgs)
           r == [IdleRun EXCEPT !.isCheck = isCheck]
       IN run' = IF merged.error
                 THEN exitRun(r, 1, "Config error")
                 ELSE [r EXCEPT !.pc = "loop", !.config = merged.config, !.idx = 1]
    /\ UNCHANGED <<fs, pysrc, gens, lastCheck, pureVars, runtimeVars, proc, effects>>

\* lines 62-110 for one module, and lines 112-123 after the last one
ProcessModule ==
    /\ run.pc = "loop"
    /\ LET mod == run.config.modules[run.idx]
           parsed == parsePythonModule(mod.input, pysrc)
           ir == parsed.ir
           workerOptions == workerOptionsOf(run.config)
           r == [run EXCEPT !.irs = Append(@, ir)]
       IN IF parsed.settled # "resolved"
          THEN /\ run' = exitRun(run, 1, parsed.settled)
               /\ UNCHANGED <<fs, gens, lastCheck>>
          ELSE IF run.isCheck
          THEN LET result == checkGenerated(fs, ir, mod.outdir, workerOptions,
                                            run.config.react # "false")
               IN /\ fs' = result.files
                  /\ lastCheck' =
                        [valid |-> TRUE, ir |-> ir, outdir |-> mod.outdir,
                         workerOptions |-> workerOptions,
                         generateReact |-> run.config.react # "false",
                         thrown |-> result.thrown, upToDate |-> result.upToDate,
                         outdatedFiles |-> result.outdatedFiles]
                  /\ run' =
                        IF result.thrown THEN exitRun(r, 2, "Unexpected error")
                        ELSE IF ~result.upToDate
                        THEN advance([r EXCEPT !.allUpToDate = FALSE,
                                               !.reported = @ \o result.outdatedFiles])
                        ELSE advance(r)
                  /\ UNCHANGED gens
          ELSE LET g == generateModule(fs, ir, mod.outdir, workerOptions, run.config.react)
                   touched == touch(gens, Range(g.written))
                   r2 == [r EXCEPT !.written = @ \o g.written]
               IN /\ fs' = g.files
                  /\ lastCheck' = IF Len(g.written) > 0 THEN NoCheck ELSE lastCheck
                  /\ gens' =
                        IF g.thrown THEN touched
                        ELSE [touched EXCEPT ![ir.moduleName] =
                                 [intact |-> TRUE, ir |-> ir, outdir |-> mod.outdir,
                                  workerOptions |-> workerOptions,
                                  react |-> run.config.react,
                                  paths |-> Range(g.written)]]
                  /\ run' = IF g.thrown THEN exitRun(r2, 2, "Unexpected error")
                            ELSE advance(r2)
    /\ UNCHANGED <<pysrc, budget, pureVars, runtimeVars, proc, effects>>

----------------------------------------------------------------------------
(* Actions of the environment: other programs and the user *)

\* the environment acts while a run is under way or still to come
envMayAct == budget.env > 0 /\ (run.pc = "loop" \/ budget.runs > 0)

EnvOverwrite(path) ==
    /\ envMayAct
    /\ fs[path].kind # "dir"
    /\ fs' = [fs EXCEPT ![path] = File("// old content")]
    /\ gens' = touch(gens, {path})
    /\ lastCheck' = NoCheck
    /\ budget' = [budget EXCEPT !.env = @ - 1]
    /\ UNCHANGED <<pysrc, run, pureVars, runtimeVars, proc, effects>>

EnvDelete(path) ==
    /\ envMayAct
    /\ fs[path].kind # "missing"
    /\ fs' = [fs EXCEPT ![path] = Missing]
    /\ gens' = touch(gens, {path})
    /\ lastCheck' = NoCheck
    /\ budget' = [budget EXCEPT !.env = @ - 1]
    /\ UNCHANGED <<pysrc, run, pureVars, runtimeVars, proc, effects>>

EnvMkdir(path) ==
    /\ envMayAct
    /\ fs[path].kind = "missing"
    /\ fs' = [fs EXCEPT ![path] = Dir]
    /\ gens' = touch(gens, {path})
    /\ lastCheck' = NoCheck
    /\ budget' = [budget EXCEPT !.env = @ - 1]
    /\ UNCHANGED <<pysrc, run, pureVars, runtimeVars, proc, effects>>

EditPython(rev) ==
    /\ envMayAct
    /\ pysrc.rev[TestPy] # rev
    /\ pysrc' = [pysrc EXCEPT !.rev[TestPy] = rev]
    /\ budget' = [budget EXCEPT !.env = @ - 1]
    /\ UNCHANGED <<fs, run, gens, lastCheck, pureVars, runtimeVars, proc, effects>>

----------------------------------------------------------------------------
(* JavaScript values, as far as the runtime inspects them *)

JsUndefined == [t |-> "undefined"]
JsNull == [t |-> "null"]
JsNumber(digits) == [t |-> "number", v |-> digits]
JsString(chars) == [t |-> "string", v |-> chars]
JsBoolean(b) == [t |-> "boolean", v |-> IF b THEN "true" ELSE "false"]
\* props: the own properties, a function from property names to values
JsObject(props) == [t |-> "object", props |-> props]
JsArray(props) == [t |-> "array", props |-> props]

\* typeof v === "object" && v !== null
isNonNullObject(v) == v.t \in {"object", "array"}

\* key in v, for a non-null object
hasProperty(v, key) == key \in DOMAIN v.props

\* String(v)
String(v) ==
    CASE v.t = "undefined" -> "undefined"
      [] v.t = "null" -> "null"
      [] v.t = "number" -> v.v
      [] v.t = "string" -> v.v
      [] v.t = "boolean" -> v.v
      [] v.t = "array" -> ""
      [] OTHER -> "[object Object]"

----------------------------------------------------------------------------
(* Conversion of Pyodide's Maps (runtime/deep-convert.ts) *)

\* a Map: its entries [k, v] in insertion order, the keys distinct values
JsMap(entries) == [t |-> "map", entries |-> entries]
Entry(k, v) == [k |-> k, v |-> v]
\* an array with its elements in order
JsArrayOf(items) == [t |-> "array", items |-> items]

\* obj[String(k)] = ... for each entry in order: a later entry whose key has the same
\* string overwrites the earlier one
lastEntryOf(entries, key) ==
    entries[CHOOSE i \in DOMAIN entries :
                /\ String(entries[i].k) = key
                /\ \A j \in DOMAIN entries : String(entries[j].k) = key => j <= i]

\* a conversion that leaves the values of a Map as they are
deepConvertMapsShallow(value) ==
    IF value.t = "map"
    THEN JsObject([key \in {String(value.entries[i].k) : i \in DOMAIN value.entries} |->
                      lastEntryOf(value.entries, key).v])
    ELSE value

RECURSIVE deepConvertMaps(_)
deepConvertMaps(value) ==
    IF value.t = "map"
    THEN JsObject([key \in {String(value.entries[i].k) : i \in DOMAIN value.entries} |->
                      deepConvertMaps(lastEntryOf(value.entries, key).v)])
    ELSE IF value.t = "array" /\ "items" \in DOMAIN value
    THEN JsArrayOf([i \in DOMAIN value.items |-> deepConvertMaps(value.items[i])])
    ELSE value

----------------------------------------------------------------------------
(* Runtime error surface (runtime/error.ts) *)

BridgeError(code, message) == [name |-> "BridgeError", code |-> code, message |-> message]
NoError == [name |-> "none", code |-> "", message |-> ""]

\* a detector that looks for the code only
detectBridgeErrorCodeOnly(result) ==
    IF isNonNullObject(result) /\ hasProperty(result, "error")
    THEN LET errorObj == result.props.error
         IN IF isNonNullObject(errorObj) /\ hasProperty(errorObj, "code")
            THEN [thrown |-> TRUE,
                  error |-> BridgeError(String(errorObj.props.code), "undefined"),
                  result |-> result]
            ELSE [thrown |-> FALSE, error |-> NoError, result |-> result]
    ELSE [thrown |-> FALSE, error |-> NoError, result |-> result]

\* thrown: whether the call throws; error: what it throws; result: the argument
\* as the call leaves it
detectBridgeError(result) ==
    IF isNonNullObject(result) /\ hasProperty(result, "error")
    THEN LET errorObj == result.props.error
         IN IF /\ isNonNullObject(errorObj)
               /\ hasProperty(errorObj, "code")
               /\ hasProperty(errorObj, "message")
            THEN [thrown |-> TRUE,
                  error |-> BridgeError(String(errorObj.props.code),
                                        String(errorObj.props.message)),
                  result |-> result]
            ELSE [thrown |-> FALSE, error |-> NoError, result |-> result]
    ELSE [thrown |-> FALSE, error |-> NoError, result |-> result]

----------------------------------------------------------------------------
(* Worker bootstrap (runtime/worker-bootstrap.ts) and the generated worker *)

cdnUrl(pyodideVersion) == "https://cdn.jsdelivr.net/pyodide/v" \o pyodideVersion \o "/full/"

BootstrapOptions(pyodideVersion, packages, pythonSource) ==
    [pyodideVersion |-> pyodideVersion, packages |-> packages, pythonSource |-> pythonSource]

\* the argument of the call made at each position
callArgument(pc, options) ==
    CASE pc = "import" -> cdnUrl(options.pyodideVersion) \o "pyodide.mjs"
      [] pc = "importScripts" -> cdnUrl(options.pyodideVersion) \o "pyodide.js"
      [] pc = "loadPyodide" -> cdnUrl(options.pyodideVersion)
      [] pc = "loadPackage" -> "micropip"
      [] pc = "install" ->
            "\nimport micropip\nawait micropip.install(" \o packageList(options.packages) \o ")\n"
      [] pc = "runPython" -> options.pythonSource
      [] OTHER -> "api"

\* a bootstrap that executes the source before it installs the packages
bootstrapPyodideSourceFirst(pc, ok, options) ==
    IF ~ok THEN (IF pc = "import" THEN "importScripts" ELSE "failed")
    ELSE CASE pc = "import" -> "loadPyodide"
           [] pc = "importScripts" -> "loadPyodide"
           [] pc = "loadPyodide" -> "runPython"
           [] pc = "runPython" -> (IF Len(options.packages) > 0 THEN "loadPackage" ELSE "expose")
           [] pc = "loadPackage" -> "install"
           [] OTHER -> "expose"

\* where the bootstrap goes after the call at pc has returned (ok) or thrown;
\* "expose" is the return to the worker script
bootstrapPyodide(pc, ok, options) ==
    IF ~ok THEN (IF pc = "import" THEN "importScripts" ELSE "failed")
    ELSE CASE pc = "import" -> "loadPyodide"
           [] pc = "importScripts" -> "loadPyodide"
           [] pc = "loadPyodide" ->
                 (IF Len(options.packages) > 0 THEN "loadPackage" ELSE "runPython")
           [] pc = "loadPackage" -> "install"
           [] pc = "install" -> "runPython"
           [] OTHER -> "expose"

\* the generated worker script: await bootstrapPyodide(...), then Comlink.expose(api)
workerScript(pc, ok, options) ==
    IF pc = "expose" THEN (IF ok THEN "exposed" ELSE "failed")
    ELSE bootstrapPyodide(pc, ok, options)

WorkerOptions == BootstrapOptions("0.26.4", <<>>, "def run(): pass")
NoWorker ==
    [id |-> 0, pc |-> "none", alive |-> FALSE, errorEvent |-> FALSE, log |-> <<>>,
     options |-> WorkerOptions, proxy |-> "none"]

\* new Worker(url): the script starts at the dynamic import unless the global
\* scope already has loadPyodide
newWorker(id, hasLoader, options) ==
    [id |-> id, pc |-> IF hasLoader THEN "loadPyodide" ELSE "import", alive |-> TRUE,
     errorEvent |-> FALSE, log |-> <<>>, options |-> options, proxy |-> "none"]

\* Comlink.wrap(worker)
wrap(w) == [w EXCEPT !.proxy = "wrapped"]

\* proxy[Comlink.releaseProxy]()
releaseProxy(w) == [w EXCEPT !.proxy = "released"]

\* a terminate that leaves the worker running
terminateNothing(w) == w

\* worker.terminate()
terminate(w) == [w EXCEPT !.alive = FALSE, !.errorEvent = FALSE]

Running(w) == w.alive /\ w.pc \notin {"none", "exposed", "failed"}

----------------------------------------------------------------------------
(* usePyodide (react/use-pyodide.ts) *)

\* useState initial values; the effect of the first render is due
MountedPyodide ==
    [status |-> "loading", error |-> "", api |-> 0, retryCount |-> 0, mounted |-> TRUE,
     effectDue |-> TRUE, cancelled |-> FALSE, microtask |-> FALSE, listening |-> FALSE]

NoPyodide == [MountedPyodide EXCEPT !.mounted = FALSE, !.effectDue = FALSE]

\* retry()
retry(p) == [p EXCEPT !.retryCount = @ + 1, !.effectDue = TRUE]

\* an effect body that does not reset the state before it creates the worker
useEffectWithoutReset(p, created, workerId) ==
    IF created
    THEN [p EXCEPT !.effectDue = FALSE,
                   !.cancelled = FALSE, !.microtask = TRUE, !.listening = TRUE]
    ELSE [p EXCEPT !.status = "error", !.error = "worker construction failed", !.api = 0,
                   !.effectDue = FALSE, !.cancelled = FALSE, !.microtask = FALSE,
                   !.listening = FALSE]

\* the effect body: reset, create the worker, listen, queue the ready marking;
\* created is whether the Worker constructor or factory returned
useEffect(p, created, workerId) ==
    IF created
    THEN [p EXCEPT !.status = "loading", !.error = "", !.api = 0, !.effectDue = FALSE,
                   !.cancelled = FALSE, !.microtask = TRUE, !.listening = TRUE]
    ELSE [p EXCEPT !.status = "error", !.error = "worker construction failed", !.api = 0,
                   !.effectDue = FALSE, !.cancelled = FALSE, !.microtask = FALSE,
                   !.listening = FALSE]

\* the cleanup function of the effect
cleanup(p) == [p EXCEPT !.cancelled = TRUE, !.listening = FALSE]

\* an error handler that starts over by itself
handleErrorResetting(p, message) ==
    IF p.cancelled THEN p ELSE [p EXCEPT !.status = "loading", !.error = ""]

\* handleError: the listener of the worker's error event
handleError(p, message) ==
    IF p.cancelled THEN p
    ELSE [p EXCEPT !.status = "error",
                   !.error = IF message = "" THEN "Worker error" ELSE message]

\* a callback that marks ready without looking at cancelled
markReadyUncancelled(p, workerId) ==
    [p EXCEPT !.status = "ready", !.api = workerId, !.microtask = FALSE]

\* the callback of Promise.resolve().then(...)
markReady(p, workerId) ==
    IF p.cancelled THEN [p EXCEPT !.microtask = FALSE]
    ELSE [p EXCEPT !.status = "ready", !.api = workerId, !.microtask = FALSE]

\* what one run of the effect keeps in its closure
closureOf(p) == [cancelled |-> p.cancelled, microtask |-> p.microtask, listening |-> p.listening]

\* the hook's state as the callbacks of the closure c see it
withClosure(p, c) ==
    [p EXCEPT !.cancelled = c.cancelled, !.microtask = c.microtask, !.listening = c.listening]

\* an effect that was cleaned up: its closure, its Worker, whether an error event of
\* that Worker was still to be dispatched, and how many of its callbacks ran since
OldEffect(closure, w, lateError) ==
    [closure |-> closure, worker |-> w, lateError |-> lateError, ran |-> 0]

\* no effect has been cleaned up; changes counts the renders with another options.worker
NoEffects == [old |-> <<>>, changes |-> 0]

\* the status changes so far
recordStatus(h, before, after) ==
    IF before.status = after.status THEN h
    ELSE [h EXCEPT !.trail = Append(@, after.status)]

----------------------------------------------------------------------------
(* createBridgeHook (react/create-hook.ts) *)

\* values an api method may reject with
JsBridgeError(code, message) == [t |-> "BridgeError", code |-> code, message |-> message]
JsError(message) == [t |-> "Error", message |-> message]

Returned(value) == [kind |-> "return", value |-> value]
Threw(value) == [kind |-> "throw", value |-> value]
NotReady == [kind |-> "notReady", value |-> JsNull]

\* useState initial values, the api argument, the promises execute has returned
NoBridge ==
    [api |-> 0, result |-> JsNull, error |-> NoError, isLoading |-> FALSE, calls |-> <<>>]

\* execute with a null api: the promise is resolved at once
executeNotReady(b) ==
    [b EXCEPT !.error = BridgeError("NOT_READY",
                                    "API is not ready. Wait for usePyodide status to be 'ready'."),
              !.calls = Append(@, "resolved")]

\* execute with an api, up to the await
executeStart(b) ==
    [b EXCEPT !.isLoading = TRUE, !.error = NoError, !.calls = Append(@, "pending")]

\* err instanceof Error ? err.message : String(err)
errorMessage(err) == IF err.t \in {"Error", "BridgeError"} THEN err.message ELSE String(err)

\* a continuation that lets everything but a BridgeError escape
executeSettleRethrowing(b, call, outcome) ==
    IF outcome.kind = "return"
    THEN [b EXCEPT !.result = outcome.value, !.isLoading = FALSE, !.calls[call] = "resolved"]
    ELSE IF outcome.value.t = "BridgeError"
    THEN [b EXCEPT !.error = BridgeError(outcome.value.code, outcome.value.message),
                   !.isLoading = FALSE, !.calls[call] = "resolved"]
    ELSE [b EXCEPT !.isLoading = FALSE, !.calls[call] = "rejected"]

\* a continuation that forgets the result when a call fails
executeSettleClearing(b, call, outcome) ==
    IF outcome.kind = "return"
    THEN [b EXCEPT !.result = outcome.value, !.isLoading = FALSE, !.calls[call] = "resolved"]
    ELSE [b EXCEPT !.result = JsNull,
                   !.error = IF outcome.value.t = "BridgeError"
                             THEN BridgeError(outcome.value.code, outcome.value.message)
                             ELSE BridgeError("BRIDGE_CALL_ERROR", errorMessage(outcome.value)),
                   !.isLoading = FALSE, !.calls[call] = "resolved"]

\* execute after the await: try (setResult), catch (setError), finally
executeSettle(b, call, outcome) ==
    IF outcome.kind = "return"
    THEN [b EXCEPT !.result = outcome.value, !.isLoading = FALSE, !.calls[call] = "resolved"]
    ELSE [b EXCEPT !.error = IF outcome.value.t = "BridgeError"
                             THEN BridgeError(outcome.value.code, outcome.value.message)
                             ELSE BridgeError("BRIDGE_CALL_ERROR", errorMessage(outcome.value)),
                   !.isLoading = FALSE, !.calls[call] = "resolved"]

----------------------------------------------------------------------------
(* What has happened so far *)

NoOutcome == [kind |-> "none", value |-> JsNull]
NoSettle == [outcome |-> NoOutcome, promise |-> "none", error |-> NoError, isLoading |-> FALSE]

\* trail: the statuses usePyodide has had; order: the calls of a bridge hook in the
\* order they finished; last: the outcome of the one that finished last, its promise
\* and the hook state it left; lastSuccess: the value of the last call that returned;
\* lastFailure: the outcome of the last call that failed, if no call has started since
NoHistory ==
    [trail |-> <<"loading">>, order |-> <<>>, last |-> NoSettle, lastSuccess |-> JsNull,
     lastFailure |-> NoOutcome]

finished(h, call, outcome, b) ==
    [h EXCEPT !.order = Append(@, call),
              !.last = [outcome |-> outcome, promise |-> b.calls[call], error |-> b.error,
                        isLoading |-> b.isLoading],
              !.lastSuccess = IF outcome.kind = "return" THEN outcome.value ELSE @,
              !.lastFailure = IF outcome.kind = "return" THEN @ ELSE outcome]

InitRuntimeIdle ==
    /\ worker = NoWorker
    /\ pyo = NoPyodide
    /\ bridge = NoBridge
    /\ hist = NoHistory
    /\ effects = NoEffects

----------------------------------------------------------------------------
(* The worker and the usePyodide hook of one mounted component *)

PackageLists == {<<>>, <<"numpy", "pandas", "numpy">>}

InitWorker ==
    /\ InitCli(TRUE)
    /\ pin = [fn |-> "none"]
    /\ pout = [done |-> FALSE, text |-> ""]
    /\ worker \in {[NoWorker EXCEPT !.options.packages = pkgs] : pkgs \in PackageLists}
    /\ pyo = MountedPyodide
    /\ bridge = NoBridge
    /\ hist = NoHistory
    /\ effects = NoEffects

\* React runs the effect: the cleanup of the previous one, then the body
RunEffect(created, hasLoader) ==
    /\ pyo.mounted /\ pyo.effectDue /\ ~pyo.microtask
    /\ LET cleaned == IF pyo.listening THEN cleanup(pyo) ELSE pyo
           after == useEffect(cleaned, created, worker.id + 1)
       IN /\ pyo' = after
          /\ worker' = IF created
                       THEN wrap(newWorker(worker.id + 1, hasLoader, worker.options))
                       ELSE IF pyo.listening THEN terminate(releaseProxy(worker))
                       ELSE worker
          /\ hist' = recordStatus(hist, pyo, after)
    /\ UNCHANGED <<bridge, cliVars, pureVars, proc, effects>>

\* the microtask queued by the effect runs
Microtask ==
    /\ pyo.microtask
    /\ pyo' = markReady(pyo, worker.id)
    /\ hist' = recordStatus(hist, pyo, pyo')
    /\ UNCHANGED <<worker, bridge, cliVars, pureVars, proc, effects>>

\* the worker makes the call at its position; it returns or throws
WorkerStep(ok) ==
    /\ Running(worker)
    /\ LET next == workerScript(worker.pc, ok, worker.options)
       IN worker' = [worker EXCEPT
                        !.pc = next,
                        !.errorEvent = (next = "failed"),
                        !.log = Append(@, [op |-> worker.pc,
                                           arg |-> callArgument(worker.pc, worker.options),
                                           ok |-> ok])]
    /\ UNCHANGED <<pyo, bridge, hist, cliVars, pureVars, proc, effects>>

\* the error event of a failed worker reaches the main thread
DeliverError ==
    /\ worker.alive /\ worker.errorEvent
    /\ pyo.listening /\ ~pyo.microtask
    /\ pyo' = handleError(pyo, "")
    /\ worker' = [worker EXCEPT !.errorEvent = FALSE]
    /\ hist' = recordStatus(hist, pyo, pyo')
    /\ UNCHANGED <<bridge, cliVars, pureVars, proc, effects>>

\* the component calls retry()
Retry ==
    /\ pyo.mounted /\ pyo.retryCount < MaxRetries
    /\ pyo' = retry(pyo)
    /\ UNCHANGED <<worker, bridge, hist, cliVars, pureVars, proc, effects>>

\* the component unmounts: React runs the cleanup
Unmount ==
    /\ pyo.mounted /\ pyo.listening
    /\ pyo' = [cleanup(pyo) EXCEPT !.mounted = FALSE, !.effectDue = FALSE]
    /\ worker' = terminate(releaseProxy(worker))
    /\ UNCHANGED <<bridge, hist, cliVars, pureVars, proc, effects>>

NextWorker ==
    \/ \E created, hasLoader \in BOOLEAN : RunEffect(created, hasLoader)
    \/ Microtask
    \/ \E ok \in BOOLEAN : WorkerStep(ok)
    \/ DeliverError
    \/ Retry
    \/ Unmount

SpecWorker == InitWorker /\ [][NextWorker]_vars

----------------------------------------------------------------------------
(* usePyodide over several effects: retries, other options.worker, unmount *)

MaxOptionChanges == 1

InitLifecycle ==
    /\ InitCli(TRUE)
    /\ pin = [fn |-> "none"]
    /\ pout = [done |-> FALSE, text |-> ""]
    /\ worker = NoWorker
    /\ pyo = MountedPyodide
    /\ bridge = NoBridge
    /\ hist = NoHistory
    /\ effects = NoEffects

\* React commits a render whose dependencies changed (or the first one): the cleanup
\* of the previous effect, if it returned one, then the effect body, whether or not
\* the microtask of the previous effect has run
Commit(created) ==
    /\ pyo.mounted /\ pyo.effectDue
    /\ LET hadCleanup == pyo.listening
           cleaned == IF hadCleanup THEN cleanup(pyo) ELSE pyo
           terminated == IF hadCleanup THEN terminate(releaseProxy(worker)) ELSE worker
           after == useEffect(cleaned, created, worker.id + 1)
       IN /\ pyo' = after
          /\ worker' = IF created THEN wrap(newWorker(worker.id + 1, TRUE, worker.options))
                       ELSE terminated
          /\ effects' = IF hadCleanup
                        THEN [effects EXCEPT
                                 !.old = Append(@, OldEffect(closureOf(cleaned), terminated,
                                                             worker.errorEvent))]
                        ELSE effects
          /\ hist' = recordStatus(hist, pyo, after)
    /\ UNCHANGED <<bridge, cliVars, pureVars, proc>>

\* the component renders with another options.worker
ChangeWorkerOption ==
    /\ pyo.mounted
    /\ effects.changes < MaxOptionChanges
    /\ pyo' = [pyo EXCEPT !.effectDue = TRUE]
    /\ effects' = [effects EXCEPT !.changes = @ + 1]
    /\ UNCHANGED <<worker, bridge, hist, cliVars, pureVars, proc>>

\* an error is thrown in the current Worker and not caught
WorkerError ==
    /\ worker.alive /\ ~worker.errorEvent
    /\ worker' = [worker EXCEPT !.errorEvent = TRUE]
    /\ UNCHANGED <<pyo, bridge, hist, cliVars, pureVars, proc, effects>>

\* the microtask queued by an effect that was cleaned up since runs
LateMicrotask(i) ==
    /\ effects.old[i].closure.microtask
    /\ LET e == effects.old[i]
           after == markReady(withClosure(pyo, e.closure), e.worker.id)
       IN /\ pyo' = withClosure(after, closureOf(pyo))
          /\ effects' = [effects EXCEPT !.old[i].closure = closureOf(after),
                                        !.old[i].ran = @ + 1]
          /\ hist' = recordStatus(hist, pyo, pyo')
    /\ UNCHANGED <<worker, bridge, cliVars, pureVars, proc>>

\* an error event of a Worker whose effect was cleaned up is dispatched: to
\* handleError if it is still a listener
LateErrorEvent(i) ==
    /\ effects.old[i].lateError
    /\ LET e == effects.old[i]
           after == IF e.closure.listening
                    THEN handleError(withClosure(pyo, e.closure), "")
                    ELSE withClosure(pyo, e.closure)
       IN /\ pyo' = withClosure(after, closureOf(pyo))
          /\ effects' = [effects EXCEPT !.old[i].lateError = FALSE,
                                        !.old[i].ran = @ + IF e.closure.listening THEN 1 ELSE 0]
          /\ hist' = recordStatus(hist, pyo, pyo')
    /\ UNCHANGED <<worker, bridge, cliVars, pureVars, proc>>

NextLifecycle ==
    \/ \E created \in BOOLEAN : Commit(created)
    \/ ChangeWorkerOption
    \/ Retry
    \/ Unmount
    \/ Microtask
    \/ WorkerError
    \/ DeliverError
    \/ \E i \in DOMAIN effects.old : LateMicrotask(i)
    \/ \E i \in DOMAIN effects.old : LateErrorEvent(i)

SpecLifecycle == InitLifecycle /\ [][NextLifecycle]_vars


----------------------------------------------------------------------------
(* One bridge hook, its api argument and the calls made through it *)

Outcomes ==
    {Returned(JsNumber("1")), Returned(JsNumber("2")),
     Threw(JsBridgeError("E1", "boom")), Threw(JsBridgeError("E2", "bang")),
     Threw(JsError("fail")), Threw(JsString("oops"))}

InitHook ==
    /\ InitCli(TRUE)
    /\ pin = [fn |-> "none"]
    /\ pout = [done |-> FALSE, text |-> ""]
    /\ worker = NoWorker
    /\ pyo = NoPyodide
    /\ bridge \in {[NoBridge EXCEPT !.api = a] : a \in {0, 1}}
    /\ hist = NoHistory
    /\ effects = NoEffects

\* the component renders the hook with another api: null, or the proxy
SetApi(a) ==
    /\ a # bridge.api
    /\ bridge' = [bridge EXCEPT !.api = a]
    /\ UNCHANGED <<worker, pyo, hist, cliVars, pureVars, proc, effects>>

\* the component calls execute
Execute ==
    /\ Len(bridge.calls) < MaxCalls
    /\ IF bridge.api = 0
       THEN /\ bridge' = executeNotReady(bridge)
            /\ hist' = finished(hist, Len(bridge.calls) + 1, NotReady, bridge')
       ELSE /\ bridge' = executeStart(bridge)
            /\ hist' = [hist EXCEPT !.lastFailure = NoOutcome]
    /\ UNCHANGED <<worker, pyo, cliVars, pureVars, proc, effects>>

\* the api method called by a pending execute returns or throws
Settle(call, outcome) ==
    /\ call \in DOMAIN bridge.calls
    /\ bridge.calls[call] = "pending"
    /\ bridge' = executeSettle(bridge, call, outcome)
    /\ hist' = finished(hist, call, outcome, bridge')
    /\ UNCHANGED <<worker, pyo, cliVars, pureVars, proc, effects>>

NextHook ==
    \/ \E a \in {0, 1} : SetApi(a)
    \/ Execute
    \/ \E call \in 1..MaxCalls, outcome \in Outcomes : Settle(call, outcome)

SpecHook == InitHook /\ [][NextHook]_vars

----------------------------------------------------------------------------
(* The pure functions of the generator, applied to enumerated inputs *)

NoInput == [fn |-> "none"]
NoOutput == [done |-> FALSE, text |-> ""]

RECURSIVE TypeRefsOfDepth(_)
TypeRefsOfDepth(d) ==
    IF d = 0
    THEN {Prim(n) : n \in PrimitiveNames}
             \cup {Ref("Status"), Ref("InputParams"),
                   LiteralOf(<<StrVal("asc"), StrVal("desc")>>),
                   LiteralOf(<<NumVal("1"), BoolVal("true"), StrVal("x")>>)}
    ELSE LET S == TypeRefsOfDepth(d - 1)
         IN S \cup {ListOf(t) : t \in S} \cup {OptionalOf(t) : t \in S}
              \cup {DictOf(k, v) : k \in {Prim("str"), Prim("int")}, v \in S}

TypeRefInputs == TypeRefsOfDepth(MaxDepth)

FieldNames == {"query", "limit", "tag"}
FieldTypes == {Prim("str"), Prim("int")}
FieldInputs == {Field(n, t, req) : n \in FieldNames, t \in FieldTypes, req \in BOOLEAN}

\* records of 1..MaxFields fields with distinct names
RecordInputs ==
    {TypedDict("Params", total, fields) :
        total \in BOOLEAN,
        fields \in {f \in UNION {[1..n -> FieldInputs] : n \in 1..MaxFields} :
                       \A i, j \in DOMAIN f : i # j => f[i].name # f[j].name}}

IdentChars == {"a", "z", "_", "Q"}

RECURSIVE IdentsOfLen(_)
IdentsOfLen(n) ==
    IF n = 0 THEN {""} ELSE {c \o rest : c \in IdentChars, rest \in IdentsOfLen(n - 1)}

IdentInputs ==
    UNION {IdentsOfLen(n) : n \in 1..MaxIdentLen} \cup {"run_query", "get_all_items"}

\* the declared types of the enumerated IRs: Status is referenced by a field
\* only, Orphan by nothing
DeclaredTypes ==
    <<StatusAlias,
      TypedDict("InputParams", FALSE, <<Field("query", Prim("str"), TRUE)>>),
      TypedDict("Result", TRUE, <<Field("status", Ref("Status"), TRUE)>>),
      TypedDict("Orphan", TRUE, <<Field("id", Prim("int"), TRUE)>>)>>

ParamTypes == {Ref("InputParams"), DictOf(Prim("str"), ListOf(Ref("Result")))}
ReturnTypes == {Prim("bool"), OptionalOf(Ref("InputParams"))}
ParamNames == <<"params", "extra", "more">>

ParamLists ==
    UNION {{[i \in 1..n |-> Param(ParamNames[i], ts[i])] : ts \in [1..n -> ParamTypes]} :
              n \in 0..MaxParams}

FunctionInputs(name) == {Function(name, ps, ret) : ps \in ParamLists, ret \in ReturnTypes}

FunctionNames == <<"run_query", "get_all_items", "load", "save">>

FunctionLists ==
    UNION {{fns \in [1..n -> UNION {FunctionInputs(FunctionNames[i]) : i \in 1..n}] :
               \A i \in 1..n : fns[i].name = FunctionNames[i]} : n \in 0..MaxFns}

IRInputs == {ModuleIR("engine", DeclaredTypes, fns, <<>>) : fns \in FunctionLists}

Bundlers == {"vite", "webpack", "inline"}

WorkerInputs ==
    {[ir |-> ModuleIR("engine", DeclaredTypes, fns, pkgs),
      options |-> [pyodideVersion |-> "0.26.4", bundler |-> b]] :
        fns \in {f \in FunctionLists : Len(f) <= 1}, pkgs \in PackageLists, b \in Bundlers}

JsPrimitives == {JsUndefined, JsNull, JsNumber("42"), JsString("E1"), JsBoolean(FALSE)}
JsPropValues == {JsUndefined, JsNull, JsNumber("42"), JsString("E1")}

\* what the 'error' property of a result may hold
ErrorValues ==
    JsPrimitives
        \cup {JsArray([length |-> JsNumber("0")])}
        \cup {JsObject([extra |-> JsNull])}
        \cup {JsObject([code |-> c]) : c \in JsPropValues}
        \cup {JsObject([message |-> m]) : m \in JsPropValues}
        \cup {JsObject([code |-> c, message |-> m]) : c, m \in JsPropValues}
        \cup {JsObject([code |-> c, message |-> m, extra |-> JsNull]) : c, m \in JsPropValues}

ResultInputs ==
    JsPrimitives
        \cup {JsArray([length |-> JsNumber("0")]), JsObject([data |-> JsNumber("42")])}
        \cup {JsObject([code |-> JsString("E1"), message |-> JsString("boom")])}
        \cup {JsObject([error |-> e]) : e \in ErrorValues}
        \cup {JsObject([error |-> e, data |-> JsNumber("42")]) : e \in ErrorValues}

InitPure ==
    /\ InitCli(TRUE)
    /\ InitRuntimeIdle
    /\ pin \in {[fn |-> "resolveTypeRef", typeRef |-> t] : t \in TypeRefInputs}
               \cup {[fn |-> "emitTypes", node |-> r] : r \in RecordInputs}
               \cup {[fn |-> "hookName", ident |-> id] : id \in IdentInputs}
               \cup {[fn |-> "emitHooks", ir |-> ir] : ir \in IRInputs}
               \cup {[fn |-> "emitWorker", ir |-> w.ir, options |-> w.options] :
                         w \in WorkerInputs}
               \cup {[fn |-> "detectBridgeError", result |-> r] : r \in ResultInputs}
    /\ pout = NoOutput

ApplyResolveTypeRef ==
    /\ pin.fn = "resolveTypeRef"
    /\ ~pout.done
    /\ pout' = [done |-> TRUE, text |-> resolveTypeRef(pin.typeRef)]
    /\ UNCHANGED <<pin, cliVars, runtimeVars, proc, effects>>

ApplyEmitTypes ==
    /\ pin.fn = "emitTypes"
    /\ ~pout.done
    /\ pout' = [done |-> TRUE, text |-> emitTypes(ModuleIR("m", <<pin.node>>, <<>>, <<>>))]
    /\ UNCHANGED <<pin, cliVars, runtimeVars, proc, effects>>

ApplyHookName ==
    /\ pin.fn = "hookName"
    /\ ~pout.done
    /\ pout' = [done |-> TRUE, text |-> hookName(pin.ident)]
    /\ UNCHANGED <<pin, cliVars, runtimeVars, proc, effects>>

ApplyEmitHooks ==
    /\ pin.fn = "emitHooks"
    /\ ~pout.done
    /\ pout' = [done |-> TRUE, text |-> emitHooks(pin.ir)]
    /\ UNCHANGED <<pin, cliVars, runtimeVars, proc, effects>>

ApplyEmitWorker ==
    /\ pin.fn = "emitWorker"
    /\ ~pout.done
    /\ pout' = [done |-> TRUE, text |-> emitWorker(pin.ir, pin.options)]
    /\ UNCHANGED <<pin, cliVars, runtimeVars, proc, effects>>

ApplyDetectBridgeError ==
    /\ pin.fn = "detectBridgeError"
    /\ ~pout.done
    /\ pout' = [done |-> TRUE, text |-> "", call |-> detectBridgeError(pin.result)]
    /\ UNCHANGED <<pin, cliVars, runtimeVars, proc, effects>>

NextPure ==
    \/ ApplyDetectBridgeError
    \/ ApplyResolveTypeRef
    \/ ApplyEmitTypes
    \/ ApplyHookName
    \/ ApplyEmitHooks
    \/ ApplyEmitWorker

SpecPure == InitPure /\ [][NextPure]_vars

InitPureIdle == pin = NoInput /\ pout = NoOutput

Init == \E python3 \in BOOLEAN : InitCli(python3) /\ InitPureIdle /\ InitRuntimeIdle

Next ==
    \/ \E fc \in FileConfigs, args \in CommandLines, isCheck \in BOOLEAN :
           StartRun(fc, args, isCheck)
    \/ ProcessModule
    \/ \E p \in ArtifactPaths : EnvOverwrite(p)
    \/ \E p \in ArtifactPaths : EnvDelete(p)
    \/ \E p \in ArtifactPaths : EnvMkdir(p)
    \/ \E rev \in TestPyRevisions : EditPython(rev)

Spec == Init /\ [][Next]_vars

----------------------------------------------------------------------------
(* One generate run over a filesystem in which writes may fail *)

\* the output directory is missing, is a directory with anything at the artifact
\* paths, or is a regular file
WritableFilesystems ==
    {[p \in ArtifactPaths \cup {OutDir} |-> IF p = OutDir THEN d ELSE Missing] :
        d \in {Missing, File("not a directory")}}
    \cup {f \in [ArtifactPaths \cup {OutDir} -> {Missing, Dir, File("// old content")}] :
              /\ f[OutDir] = Dir
              /\ \A p \in ArtifactPaths : f[p] = File("// old content") => p # hooksPathOf(IR_bad, OutDir)}

InitWrite ==
    /\ fs \in WritableFilesystems
    /\ pysrc = [rev |-> [i \in PyInputs |-> 1], python3 |-> TRUE]
    /\ run = IdleRun
    /\ gens = [m \in ModuleNames |-> NoGeneration]
    /\ lastCheck = NoCheck
    /\ budget = [env |-> 0, runs |-> 1]
    /\ proc = NoProc
    /\ InitPureIdle
    /\ InitRuntimeIdle

NextWrite ==
    \/ \E fc \in FileConfigs, args \in CommandLines : StartRun(fc, args, FALSE)
    \/ ProcessModule

SpecWrite == InitWrite /\ [][NextWrite]_vars

----------------------------------------------------------------------------
(* One check run over a filesystem left by earlier generations and edits *)

\* what a generation under the configuration file wrote for the first module
GeneratedTest ==
    generatedArtifacts(IR_test, OutDir, [pyodideVersion |-> "0.26.4", bundler |-> "webpack"],
                       "true")

\* each artifact of the first module is missing, stale or as generated; a directory
\* may have the name of the types file or of the hooks file
CheckedFilesystems ==
    {[p \in ArtifactPaths \cup {OutDir} |->
         IF p = OutDir THEN Dir
         ELSE IF p = GeneratedTest[1][1] THEN t
         ELSE IF p = GeneratedTest[2][1] THEN w
         ELSE IF p = GeneratedTest[3][1] THEN h
         ELSE Missing] :
        t \in {Missing, Dir, File("// old content"), File(GeneratedTest[1][2])},
        w \in {Missing, File("// old content"), File(GeneratedTest[2][2])},
        h \in {Missing, Dir, File("// old content"), File(GeneratedTest[3][2])}}

InitCheck ==
    /\ fs \in CheckedFilesystems
    /\ pysrc = [rev |-> [i \in PyInputs |-> 1], python3 |-> TRUE]
    /\ run = IdleRun
    /\ gens = [m \in ModuleNames |-> NoGeneration]
    /\ lastCheck = NoCheck
    /\ budget = [env |-> 0, runs |-> 1]
    /\ proc = NoProc
    /\ InitPureIdle
    /\ InitRuntimeIdle

NextCheck ==
    \/ \E fc \in FileConfigs, args \in CommandLines : StartRun(fc, args, TRUE)
    \/ ProcessModule

SpecCheck == InitCheck /\ [][NextCheck]_vars

----------------------------------------------------------------------------
(* One run from a config file and a command line as the user wrote them *)

TwoModules == <<ModuleConfig(TestPy, OutDir), ModuleConfig(BadPy, OutDir)>>

\* no config file, config files that pass validation, and config files that do not
RawConfigs ==
    {NoRawConfig}
    \cup {RawConfig("0.26.4", TwoModules, r, b) :
              r \in {Undefined, "false"}, b \in {Undefined, "webpack", "rollup"}}
    \cup {RawConfig("0.26.4", <<ModuleConfig(BadPy, OutDir), ModuleConfig(TestPy, OutDir)>>,
                    Undefined, "inline"),
          RawConfig(Undefined, TwoModules, Undefined, Undefined),
          RawConfig("0.26.4", <<>>, Undefined, Undefined)}

\* what main hands to mergeCliArgs: --no-react gives react false, else undefined
RawCommandLines ==
    {CliArgs(io[1], io[2], v, b, r) :
        io \in {<<Undefined, Undefined>>, <<TestPy, Undefined>>, <<TestPy, OutDir>>},
        v \in {Undefined, "", "0.27.5"},
        b \in {Undefined, "", "inline", "rollup"},
        r \in {Undefined, "false"}}

InitConfig ==
    /\ fs = [p \in ArtifactPaths \cup {OutDir} |-> IF p = OutDir THEN Dir ELSE Missing]
    /\ pysrc = [rev |-> [i \in PyInputs |-> 1], python3 |-> TRUE]
    /\ run = IdleRun
    /\ gens = [m \in ModuleNames |-> NoGeneration]
    /\ lastCheck = NoCheck
    /\ budget = [env |-> 0, runs |-> 1]
    /\ proc = NoProc
    /\ InitPureIdle
    /\ InitRuntimeIdle

\* lines 46-59 with loadConfig: the config file is loaded and validated, the command
\* line merged into it, and the loop entered; pin keeps what the user wrote
LoadAndStart(raw, cliArgs, isCheck) ==
    /\ run.pc # "loop"
    /\ budget.runs > 0
    /\ budget' = [budget EXCEPT !.runs = @ - 1]
    /\ pin' = [fn |-> "main", file |-> raw, args |-> cliArgs]
    /\ LET loaded == loadConfig(raw)
           merged == mergeCliArgs(loaded.config, cliArgs)
           r == [IdleRun EXCEPT !.isCheck = isCheck]
       IN run' = IF loaded.error \/ merged.error
                 THEN exitRun(r, 1, "Config error")
                 ELSE [r EXCEPT !.pc = "loop", !.config = merged.config, !.idx = 1]
    /\ UNCHANGED <<fs, pysrc, gens, lastCheck, pout, runtimeVars, proc, effects>>

NextConfig ==
    \/ \E raw \in RawConfigs, args \in RawCommandLines, isCheck \in BOOLEAN :
           LoadAndStart(raw, args, isCheck)
    \/ ProcessModule

SpecConfig == InitConfig /\ [][NextConfig]_vars

----------------------------------------------------------------------------
(* One parsePythonModule call and the events of its child process *)

StdoutChunks ==
    {<<>>, <<"{\"moduleName\":\"test\"}">>, <<"{\"moduleName\":", "\"bad\"}">>,
     <<"Traceback">>, <<"{\"moduleName\":">>}
StderrChunks == {<<>>, <<"SyntaxError: ", "invalid syntax\n">>}

\* python3 is missing, cannot be executed, or runs, prints and exits
ChildProcesses ==
    {ChildProcess(e, <<>>, <<>>, c) : e \in {"ENOENT"}, c \in {"-2"}}
    \cup {ChildProcess(e, <<>>, <<>>, c) : e \in {"EACCES"}, c \in {"-13"}}
    \cup {ChildProcess("", out, err, c) :
              out \in StdoutChunks, err \in StderrChunks, c \in {"0", "1", "null"}}

InitParser ==
    /\ InitCli(TRUE)
    /\ InitPureIdle
    /\ InitRuntimeIdle

\* parsePythonModule(inputPath) is called
CallParser(inputPath, child) ==
    /\ proc.pc = "none"
    /\ proc' = spawn(inputPath, child)
    /\ UNCHANGED <<cliVars, pureVars, runtimeVars, effects>>

\* the child writes a chunk to its stdout
StdoutData ==
    /\ proc.pc = "spawned"
    /\ proc.outSeen < Len(proc.child.out)
    /\ proc' = [onStdoutData(proc, proc.child.out[proc.outSeen + 1])
                    EXCEPT !.outSeen = @ + 1]
    /\ UNCHANGED <<cliVars, pureVars, runtimeVars, effects>>

\* the child writes a chunk to its stderr
StderrData ==
    /\ proc.pc = "spawned"
    /\ proc.errSeen < Len(proc.child.err)
    /\ proc' = [onStderrData(proc, proc.child.err[proc.errSeen + 1])
                    EXCEPT !.errSeen = @ + 1]
    /\ UNCHANGED <<cliVars, pureVars, runtimeVars, effects>>

\* the spawn has failed: 'error' is emitted
ErrorEvent ==
    /\ proc.pc = "spawned"
    /\ proc.child.spawnError # ""
    /\ ~proc.errorEmitted
    /\ proc' = [onError(proc, proc.child.spawnError) EXCEPT !.errorEmitted = TRUE]
    /\ UNCHANGED <<cliVars, pureVars, runtimeVars, effects>>

\* 'close' is emitted: after the streams have ended and, for a spawn that failed,
\* after 'error'
CloseEvent ==
    /\ proc.pc = "spawned"
    /\ proc.outSeen = Len(proc.child.out)
    /\ proc.errSeen = Len(proc.child.err)
    /\ proc.child.spawnError # "" => proc.errorEmitted
    /\ proc' = [onClose(proc, proc.child.code) EXCEPT !.pc = "closed"]
    /\ UNCHANGED <<cliVars, pureVars, runtimeVars, effects>>

NextParser ==
    \/ \E inputPath \in PyInputs, child \in ChildProcesses : CallParser(inputPath, child)
    \/ StdoutData
    \/ StderrData
    \/ ErrorEvent
    \/ CloseEvent

SpecParser == InitParser /\ [][NextParser]_vars

----------------------------------------------------------------------------
(* deepConvertMaps applied to values as toJs() returns them *)

MaxNesting == 2

MapKeys == {JsString("x"), JsNumber("1")}

\* primitives, a Map, an array or a plain object around a value of less nesting, and
\* Maps of two entries, whose keys may have the same string
RECURSIVE ValuesOfNesting(_)
ValuesOfNesting(d) ==
    IF d = 0
    THEN {JsNull, JsNumber("42"), JsString("a"), JsMap(<<>>), JsArrayOf(<<>>),
          JsObject([foo |-> JsString("bar")])}
    ELSE LET inner == ValuesOfNesting(d - 1)
         IN inner
            \cup {JsMap(<<Entry(k, v)>>) : k \in MapKeys, v \in inner}
            \cup {JsMap(<<Entry(JsNumber("1"), v), Entry(JsString("1"), JsNull)>>) : v \in inner}
            \cup {JsArrayOf(<<JsNumber("42"), v>>) : v \in inner}
            \cup {JsObject([held |-> v]) : v \in inner}

InitConvert ==
    /\ InitCli(TRUE)
    /\ InitRuntimeIdle
    /\ pout = NoOutput
    /\ pin \in {[fn |-> "deepConvertMaps", value |-> v] : v \in ValuesOfNesting(MaxNesting)}

ApplyDeepConvertMaps ==
    /\ pin.fn = "deepConvertMaps"
    /\ ~pout.done
    /\ pout' = [done |-> TRUE, text |-> "", value |-> deepConvertMaps(pin.value)]
    /\ UNCHANGED <<pin, cliVars, runtimeVars, proc, effects>>

NextConvert == ApplyDeepConvertMaps

SpecConvert == InitConvert /\ [][NextConvert]_vars

----------------------------------------------------------------------------
(* Claims about the check engine and the driver, checked under Spec *)

\* whether sub occurs in text
Contains(text, sub) ==
    \E i \in 1..(Len(text) - Len(sub) + 1) : SubSeq(text, i, i + Len(sub) - 1) = sub

\* the canonical artifacts of a module: <<path, regenerated text>>
CanonicalArtifacts(ir, outdir, workerOptions, withHooks) ==
    {<<outdir \o "/" \o ir.moduleName \o ".types.ts", emitTypes(ir)>>,
     <<outdir \o "/" \o ir.moduleName \o ".worker.ts", emitWorker(ir, workerOptions)>>}
    \cup (IF withHooks
          THEN {<<outdir \o "/" \o ir.moduleName \o ".hooks.ts", emitHooks(ir)>>}
          ELSE {})

\* the file at path is missing, or its content is not text
Outdated(path, text) ==
    fs[path].kind = "missing" \/ (fs[path].kind = "file" /\ fs[path].bytes # utf8Encode(text))

\* C1: once generate mode has written a module's artifacts and nothing has touched
\* them since, checkGenerated with the same IR, directory, worker options and react
\* flag returns upToDate = true and outdatedFiles = [].
C1_RoundTrip ==
    \A m \in ModuleNames :
        gens[m].intact =>
            LET g == gens[m]
                r == checkGenerated(fs, g.ir, g.outdir, g.workerOptions, g.react # "false")
            IN ~r.thrown /\ r.upToDate /\ r.outdatedFiles = <<>>

\* a check-mode run has just checked a module that generate mode wrote with the same
\* IR and options, for a worker emitted with a bundler other than the default
C1_Witness ==
    /\ lastCheck.valid
    /\ lastCheck.upToDate
    /\ lastCheck.workerOptions.bundler # "vite"
    /\ LET g == gens[lastCheck.ir.moduleName]
       IN /\ g.intact
          /\ g.ir = lastCheck.ir
          /\ g.workerOptions = lastCheck.workerOptions
          /\ (g.react # "false") = lastCheck.generateReact

\* C2: checkGenerated lists a canonical artifact path if and only if the file there
\* is missing or differs from the regenerated text, lists nothing else and nothing
\* twice, and upToDate is true if and only if the list is empty.
C2_OutdatedExactly ==
    (lastCheck.valid /\ ~lastCheck.thrown) =>
        LET arts == CanonicalArtifacts(lastCheck.ir, lastCheck.outdir,
                                       lastCheck.workerOptions, lastCheck.generateReact)
            listed == Range(lastCheck.outdatedFiles)
        IN /\ \A a \in arts : (a[1] \in listed) <=> Outdated(a[1], a[2])
           /\ listed \subseteq {a[1] : a \in arts}
           /\ Cardinality(listed) = Len(lastCheck.outdatedFiles)
           /\ lastCheck.upToDate <=> (lastCheck.outdatedFiles = <<>>)

\* one artifact of a generated module was overwritten and the check reports that
\* path and no other
C2_Witness ==
    /\ lastCheck.valid
    /\ lastCheck.generateReact
    /\ Len(lastCheck.outdatedFiles) = 1
    /\ fs[lastCheck.outdatedFiles[1]] = File("// old content")
    /\ ~lastCheck.upToDate

\* C3: a missing artifact is reported as outdated and is never an error: the check
\* throws only for a path that exists and cannot be read, every missing path is
\* listed, and with all three missing all three are listed.
C3_MissingIsOutdated ==
    lastCheck.valid =>
        LET paths == {a[1] : a \in CanonicalArtifacts(lastCheck.ir, lastCheck.outdir,
                                  lastCheck.workerOptions, lastCheck.generateReact)}
            missing == {q \in paths : fs[q].kind = "missing"}
        IN /\ lastCheck.thrown => \E q \in paths : fs[q].kind = "dir"
           /\ ~lastCheck.thrown => missing \subseteq Range(lastCheck.outdatedFiles)
           /\ (missing = paths) =>
                  /\ ~lastCheck.thrown
                  /\ ~lastCheck.upToDate
                  /\ Len(lastCheck.outdatedFiles) = Cardinality(paths)

\* all three artifacts are absent and the check has listed the three paths
C3_Witness ==
    /\ lastCheck.valid
    /\ lastCheck.generateReact
    /\ ~lastCheck.thrown
    /\ Len(lastCheck.outdatedFiles) = 3
    /\ \A i \in 1..3 : fs[lastCheck.outdatedFiles[i]].kind = "missing"

\* C4: no step of a run in check mode (loading the configuration, checking a
\* module, exiting) changes the set of files or the content of any file.
C4_CheckWritesNothing == [][(run' # run /\ run'.isCheck) => fs' = fs]_vars

\* a check-mode run has ended after reporting outdated files, which are still outdated
C4_Witness ==
    /\ run.pc = "exited"
    /\ run.isCheck
    /\ Len(run.reported) > 1
    /\ \E i \in DOMAIN run.reported : fs[run.reported[i]] = File("// old content")
    /\ \E i \in DOMAIN run.reported : fs[run.reported[i]].kind = "missing"

RECURSIVE RefsOfFields(_)
RefsOfFields(fields) ==
    IF Len(fields) = 0 THEN {}
    ELSE Range(collectRefs(fields[1].type)) \cup RefsOfFields(Tail(fields))

\* contract violations of an IR: names referenced and not declared, names declared twice
DanglingRefs(ir) ==
    LET declared == {ir.types[i].name : i \in DOMAIN ir.types}
        inTypes == UNION {IF ir.types[i].kind = "typeddict"
                          THEN RefsOfFields(ir.types[i].fields) ELSE {} :
                          i \in DOMAIN ir.types}
    IN (inTypes \cup Range(functionRefs(ir.functions))) \ declared

DuplicateNames(ir) ==
    {ir.types[i].name : i \in {k \in DOMAIN ir.types :
                                   \E j \in DOMAIN ir.types : j # k /\ ir.types[j].name = ir.types[k].name}}

Violations(ir) == DanglingRefs(ir) \cup DuplicateNames(ir)

\* C5: when the IR of a module has contract violations, the run fails before any
\* artifact of that module is written.
C5_ValidateBeforeEmit ==
    \A i \in DOMAIN run.irs :
        Violations(run.irs[i]) # {} =>
            /\ run.pc = "exited"
            /\ run.exitCode # 0
            /\ \A a \in CanonicalArtifacts(run.irs[i], OutDir, workerOptionsOf(run.config), TRUE) :
                   a[1] \notin Range(run.written)

----------------------------------------------------------------------------
(* Claims about the emitters, checked under SpecPure *)

emitted == pout.done /\ pin.fn = "emitTypes"

\* the declaration renders the field with / without the optional marker
RenderedOptional(text, f) == Contains(text, "\n  " \o f.name \o "?: ")

\* C6 as stated: a field is rendered optional if and only if the record has
\* total=false or the field has required=false.
C6_OrSemantics ==
    emitted =>
        \A i \in DOMAIN pin.node.fields :
            LET f == pin.node.fields[i]
            IN RenderedOptional(pout.text, f) <=> (~pin.node.total \/ ~f.required)

\* C6 as amended: a field is rendered optional if and only if the field has
\* required=false; a required field of a total=false record is not rendered optional.
C6_OptionalIffNotRequired ==
    emitted =>
        \A i \in DOMAIN pin.node.fields :
            LET f == pin.node.fields[i]
            IN /\ RenderedOptional(pout.text, f) <=> ~f.required
               /\ (~pin.node.total /\ f.required) => ~RenderedOptional(pout.text, f)

\* a total=false record with a required field has been emitted
C6_Witness ==
    /\ emitted
    /\ ~pin.node.total
    /\ \E i \in DOMAIN pin.node.fields : pin.node.fields[i].required
    /\ \E i \in DOMAIN pin.node.fields : ~pin.node.fields[i].required

\* the TypeScript text the tests expect for the field types enumerated
FieldTypeText(t) == IF t = Prim("str") THEN "string" ELSE "number"

\* C7: whatever the record's total flag, a required field is rendered as
\* 'name: T;' and a field that is not required as 'name?: T;'.
C7_MarkerFollowsRequired ==
    emitted =>
        \A i \in DOMAIN pin.node.fields :
            LET f == pin.node.fields[i]
                plain == "\n  " \o f.name \o ": " \o FieldTypeText(f.type) \o ";\n"
                marked == "\n  " \o f.name \o "?: " \o FieldTypeText(f.type) \o ";\n"
            IN IF f.required
               THEN Contains(pout.text, plain) /\ ~Contains(pout.text, marked)
               ELSE Contains(pout.text, marked) /\ ~Contains(pout.text, plain)

\* the tests' InputParams (total=false, query required, limit not) has been emitted
\* with 'query: string;' and 'limit?: number;'
C7_Witness ==
    /\ emitted
    /\ pin.node.total = FALSE
    /\ pin.node.fields = <<Field("query", Prim("str"), TRUE), Field("limit", Prim("int"), FALSE)>>
    /\ Contains(pout.text, "query: string;")
    /\ Contains(pout.text, "limit?: number;")

\* the mapping table, read off row by row
RECURSIVE TableUnion(_, _)
TableUnion(values, n) ==
    LET token == IF values[n].t = "string" THEN "\"" \o values[n].v \o "\"" ELSE values[n].v
    IN IF n = 1 THEN token ELSE TableUnion(values, n - 1) \o " | " \o token

RECURSIVE TableText(_)
TableText(t) ==
    IF t.kind = "primitive"
    THEN (IF t.name \in {"int", "float"} THEN "number"
          ELSE IF t.name = "str" THEN "string"
          ELSE IF t.name = "bool" THEN "boolean"
          ELSE "null")
    ELSE IF t.kind = "list" THEN TableText(t.element) \o "[]"
    ELSE IF t.kind = "dict"
    THEN "Record<" \o TableText(t.key) \o ", " \o TableText(t.value) \o ">"
    ELSE IF t.kind = "optional" THEN TableText(t.inner) \o " | undefined"
    ELSE IF t.kind = "literal" THEN TableUnion(t.values, Len(t.values))
    ELSE t.name

\* C8: the resolver maps every type reference by the table, at every nesting depth.
C8_TypeMappingTable ==
    (pout.done /\ pin.fn = "resolveTypeRef") => pout.text = TableText(pin.typeRef)

\* optional of list of dict has been resolved
C8_Witness ==
    /\ pout.done
    /\ pin.fn = "resolveTypeRef"
    /\ pin.typeRef = OptionalOf(ListOf(DictOf(Prim("str"), Prim("int"))))
    /\ pout.text = "Record<string, number>[] | undefined"

\* the identifier with its underscores removed and the first character of every
\* segment in upper case, every other character as it is
RECURSIVE PascalChars(_, _)
PascalChars(name, n) ==
    IF n = 0 THEN ""
    ELSE LET c == CharAt(name, n)
             startsSegment == n = 1 \/ CharAt(name, n - 1) = "_"
         IN PascalChars(name, n - 1)
                \o (IF c = "_" THEN ""
                    ELSE IF startsSegment THEN toUpperCase(c)
                    ELSE c)

\* C10: the hook name is 'use' followed by each underscore-separated segment with
\* its first letter capitalized, in order, none dropped, none capitalized twice.
C10_HookName ==
    (pout.done /\ pin.fn = "hookName") =>
        pout.text = "use" \o PascalChars(pin.ident, Len(pin.ident))

\* get_all_items has been transformed into useGetAllItems
C10_Witness ==
    /\ pout.done
    /\ pin.fn = "hookName"
    /\ pin.ident = "get_all_items"
    /\ pout.text = "useGetAllItems"

\* the lines of a text
Lines(text) == split(text, "\n")

StartsWith(text, prefix) == Len(text) >= Len(prefix) /\ SubSeq(text, 1, Len(prefix)) = prefix
EndsWith(text, suffix) ==
    Len(text) >= Len(suffix) /\ SubSeq(text, Len(text) - Len(suffix) + 1, Len(text)) = suffix

\* the named types a type reference mentions
RECURSIVE NamesIn(_)
NamesIn(t) ==
    CASE t.kind = "reference" -> {t.name}
      [] t.kind = "list" -> NamesIn(t.element)
      [] t.kind = "dict" -> NamesIn(t.key) \cup NamesIn(t.value)
      [] t.kind = "optional" -> NamesIn(t.inner)
      [] OTHER -> {}

\* the named types some function signature of the IR mentions
SignatureNames(ir) ==
    UNION {NamesIn(ir.functions[i].returnType)
               \cup UNION {NamesIn(ir.functions[i].params[j].type) :
                               j \in DOMAIN ir.functions[i].params} :
              i \in DOMAIN ir.functions}

TypesImportPrefix == "import type { "
TypesImportSuffix(ir) == " } from \"./" \o ir.moduleName \o ".types.js\";"

\* the import statements of the text that import from the types file
TypesImports(text, ir) ==
    {i \in DOMAIN Lines(text) :
        StartsWith(Lines(text)[i], TypesImportPrefix)
            /\ EndsWith(Lines(text)[i], TypesImportSuffix(ir))}

\* the names one such statement imports, in order
ImportedNames(line, ir) ==
    LET inner == SubSeq(line, Len(TypesImportPrefix) + 1, Len(line) - Len(TypesImportSuffix(ir)))
        parts == split(inner, ",")
    IN [i \in DOMAIN parts |->
           IF StartsWith(parts[i], " ") THEN SubSeq(parts[i], 2, Len(parts[i])) ELSE parts[i]]

\* C11: the hooks artifact imports from the types file exactly the named types that
\* some function's parameter or return type mentions, each once; a declared type that
\* no signature mentions is not imported, and with no such type nothing is imported.
C11_HooksImportSet ==
    (pin.fn = "emitHooks" /\ pout.done) =>
        LET imports == TypesImports(pout.text, pin.ir)
        IN IF SignatureNames(pin.ir) = {} THEN imports = {}
           ELSE /\ Cardinality(imports) = 1
                /\ \A i \in imports :
                       LET names == ImportedNames(Lines(pout.text)[i], pin.ir)
                       IN /\ Range(names) = SignatureNames(pin.ir)
                          /\ \A j, k \in DOMAIN names : j # k => names[j] # names[k]

\* two functions mention InputParams, Result is mentioned inside a dict of lists,
\* Status is declared and used by a field only, Orphan is declared and unused
C11_Witness ==
    /\ pin.fn = "emitHooks" /\ pout.done
    /\ Len(pin.ir.functions) = 2
    /\ \A i \in 1..2 : "InputParams" \in NamesIn(pin.ir.functions[i].returnType)
    /\ SignatureNames(pin.ir) = {"InputParams", "Result"}
    /\ Contains(pout.text, "import type { Result, InputParams } from")
    /\ ~Contains(pout.text, "Orphan") /\ ~Contains(pout.text, "Status")

\* the indices at which two line sequences of equal length differ
DifferingLines(a, b) == {i \in DOMAIN a : a[i] # b[i]}

\* C12: for the same IR and version, the worker artifacts of any two bundler
\* strategies have the same number of lines and differ in exactly one of them, the
\* source-acquisition statement; every other line is the same.
C12_OneLineDiffers ==
    (pin.fn = "emitWorker" /\ pout.done) =>
        \A b \in Bundlers \ {pin.options.bundler} :
            LET mine == Lines(pout.text)
                other == Lines(emitWorker(pin.ir, [pin.options EXCEPT !.bundler = b]))
            IN /\ Len(mine) = Len(other)
               /\ Cardinality(DifferingLines(mine, other)) = 1
               /\ \A i \in DifferingLines(mine, other) :
                      /\ Contains(mine[i], "pythonSource")
                      /\ Contains(mine[i], pin.ir.moduleName \o ".py")
                      /\ ~Contains(mine[i], "bootstrapPyodide")

C12_Witness ==
    /\ pin.fn = "emitWorker" /\ pout.done
    /\ pin.options.bundler = "inline"
    /\ Len(pin.ir.functions) = 1 /\ Len(pin.ir.packages) = 3
    /\ Contains(pout.text, "const pythonSource = ")
    /\ Contains(pout.text, "Comlink.expose(api);")

\* the result is shaped { error: { code, message } }
ErrorShaped(r) ==
    /\ r.t \in {"object", "array"}
    /\ "error" \in DOMAIN r.props
    /\ r.props.error.t \in {"object", "array"}
    /\ {"code", "message"} \subseteq DOMAIN r.props.error.props

\* C14: detectBridgeError throws exactly when the result is a non-null object whose
\* 'error' is a non-null object having both 'code' and 'message'; what it throws is a
\* BridgeError carrying that code and message (as strings); for every other result it
\* does not throw, and in both cases the result itself is left as it was.
C14_DetectBridgeError ==
    (pin.fn = "detectBridgeError" /\ pout.done) =>
        /\ pout.call.thrown <=> ErrorShaped(pin.result)
        /\ pout.call.thrown =>
               /\ pout.call.error.name = "BridgeError"
               /\ pout.call.error.code = String(pin.result.props.error.props.code)
               /\ pout.call.error.message = String(pin.result.props.error.props.message)
        /\ pout.call.result = pin.result

\* an 'error' object that has a code and no message has been passed through
C14_Witness ==
    /\ pin.fn = "detectBridgeError" /\ pout.done
    /\ pin.result = JsObject([error |-> JsObject([code |-> JsString("E1")])])
    /\ ~pout.call.thrown

----------------------------------------------------------------------------
(* Claims about the worker and usePyodide, checked under SpecWorker *)

\* the positions of the log at which op was called
CallsOf(op) == {i \in DOMAIN worker.log : worker.log[i].op = op}

\* op was called and returned before position i
ReturnedBefore(op, i) == \E j \in CallsOf(op) : j < i /\ worker.log[j].ok

\* JSON text of the package list as given
GivenPackages == "[" \o Join([i \in DOMAIN worker.options.packages |->
                                  "\"" \o worker.options.packages[i] \o "\""], ",") \o "]"

\* C13: the worker initializes the interpreter at the given version first, then
\* installs the package list exactly as given (same order, duplicates kept), then
\* executes the Python source, and only then exposes the API; the source is never
\* executed before the installation has returned, and after a call has failed no
\* further step runs (the classic-worker fallback of the failed import apart).
C13_BootstrapOrder ==
    /\ \A op \in {"loadPyodide", "loadPackage", "install", "runPython", "expose"} :
           Cardinality(CallsOf(op)) <= 1
    /\ \A i \in CallsOf("loadPyodide") :
           worker.log[i].arg = "https://cdn.jsdelivr.net/pyodide/v"
                                   \o worker.options.pyodideVersion \o "/full/"
    /\ \A i \in CallsOf("loadPackage") \cup CallsOf("install") \cup CallsOf("runPython") :
           ReturnedBefore("loadPyodide", i)
    /\ \A i \in CallsOf("install") :
           /\ ReturnedBefore("loadPackage", i)
           /\ worker.log[i].arg =
                  "\nimport micropip\nawait micropip.install(" \o GivenPackages \o ")\n"
    /\ \A i \in CallsOf("runPython") :
           /\ worker.log[i].arg = worker.options.pythonSource
           /\ Len(worker.options.packages) > 0 => ReturnedBefore("install", i)
    /\ \A i \in CallsOf("expose") : ReturnedBefore("runPython", i)
    /\ \A i \in DOMAIN worker.log :
           (~worker.log[i].ok /\ i < Len(worker.log)) =>
               worker.log[i].op = "import" /\ worker.log[i + 1].op = "importScripts"
    /\ worker.pc = "exposed" => ReturnedBefore("expose", Len(worker.log) + 1)

\* a worker with a package list that has a duplicate has exposed its API
C13_Witness ==
    /\ worker.pc = "exposed"
    /\ worker.options.packages = <<"numpy", "pandas", "numpy">>
    /\ \E i \in CallsOf("install") :
           Contains(worker.log[i].arg, "micropip.install([\"numpy\",\"pandas\",\"numpy\"])")
    /\ \E i \in CallsOf("import") : ~worker.log[i].ok

\* C15: status is 'ready', and api non-null, only once the worker has initialized
\* Pyodide and exposed its API; never while the worker is still loading Pyodide,
\* installing packages or running the source.
C15_ReadyOnlyAfterExposed ==
    (pyo.status = "ready" \/ pyo.api # 0) => worker.pc = "exposed"

DocumentedTransitions ==
    {<<"loading", "ready">>, <<"loading", "error">>, <<"error", "loading">>}

----------------------------------------------------------------------------
(* Claims about a bridge hook, checked under SpecHook *)

Pending == {call \in DOMAIN bridge.calls : bridge.calls[call] = "pending"}

\* C16: isLoading is true exactly while some call started by execute has not settled,
\* also when execute is called again before an earlier call has settled.
C16_IsLoadingIffPending == bridge.isLoading <=> Pending # {}

\* e is the error state that a call with this outcome leaves
IsErrorOf(e, outcome) ==
    CASE outcome.kind = "notReady" -> e.name = "BridgeError" /\ e.code = "NOT_READY"
      [] outcome.kind = "throw" /\ outcome.value.t = "BridgeError" ->
            e = [name |-> "BridgeError", code |-> outcome.value.code,
                 message |-> outcome.value.message]
      [] outcome.kind = "throw" -> e.name = "BridgeError" /\ e.code = "BRIDGE_CALL_ERROR"
      [] OTHER -> e.name = "none"

\* C17: execute never throws: whatever the call does (returns, throws a BridgeError,
\* throws anything else, or the api is null) its promise is resolved; after a call that
\* threw, error holds the thrown BridgeError or a BridgeError with code
\* BRIDGE_CALL_ERROR, and isLoading has been set to false.
C17_ErrorsAsState ==
    /\ \A call \in DOMAIN bridge.calls : bridge.calls[call] # "rejected"
    /\ hist.last.promise \in {"none", "resolved"}
    /\ hist.last.outcome.kind = "throw" =>
           /\ IsErrorOf(hist.last.error, hist.last.outcome)
           /\ ~hist.last.isLoading

\* the second of two calls has just finished by throwing a string
C17_Witness ==
    /\ hist.order = <<1, 2>>
    /\ hist.last.outcome = Threw(JsString("oops"))
    /\ hist.last.promise = "resolved"
    /\ bridge.error.code = "BRIDGE_CALL_ERROR" /\ bridge.error.message = "oops"

\* C18: result is the value returned by the call that most recently completed with
\* success, or null if none has; a failed call and a call with a null api leave result
\* alone; error is the error of the last failed call until a call started with a
\* ready api clears it.
C18_ResultAndError ==
    /\ bridge.result = hist.lastSuccess
    /\ IsErrorOf(bridge.error, hist.lastFailure)

\* the second call returned first, then the first call failed: result is still the
\* second call's value and error is the first call's
C18_Witness ==
    /\ hist.order = <<2, 1>>
    /\ hist.last.outcome = Threw(JsError("fail"))
    /\ bridge.result = JsNumber("2")
    /\ bridge.error.code = "BRIDGE_CALL_ERROR"

----------------------------------------------------------------------------
(* Claims about check mode over several modules, checked under Spec *)

\* the run has met no error so far: no parse failure, no I/O exception
Unfailed(r) == r.message \in {"", "Generated files are not up-to-date."}

\* the artifact paths of a module that are outdated on disk, in the order checked
OutdatedPaths(ir, outdir, workerOptions, withHooks) ==
    LET expected ==
            <<<<outdir \o "/" \o ir.moduleName \o ".types.ts", emitTypes(ir)>>,
              <<outdir \o "/" \o ir.moduleName \o ".worker.ts", emitWorker(ir, workerOptions)>>>>
            \o (IF withHooks
                THEN <<<<outdir \o "/" \o ir.moduleName \o ".hooks.ts", emitHooks(ir)>>>>
                ELSE <<>>)
        stale == SelectSeq(expected, LAMBDA a : Outdated(a[1], a[2]))
    IN [i \in DOMAIN stale |-> stale[i][1]]

----------------------------------------------------------------------------
(* Filesystem errors in generate mode: SpecWrite *)

\* the paths a generate run writes for a module, in the order written
WritePaths(ir, outdir, withHooks) ==
    <<outdir \o "/" \o ir.moduleName \o ".types.ts",
      outdir \o "/" \o ir.moduleName \o ".worker.ts">>
    \o (IF withHooks THEN <<outdir \o "/" \o ir.moduleName \o ".hooks.ts">> ELSE <<>>)

\* the step that fails: 0 the creation of the directory, i the i-th write,
\* Len(paths) + 1 none
FirstFailure(outdir, paths) ==
    IF fs[outdir].kind = "file" THEN 0
    ELSE IF \E i \in DOMAIN paths : fs[paths[i]].kind = "dir"
    THEN CHOOSE i \in DOMAIN paths :
             /\ fs[paths[i]].kind = "dir"
             /\ \A j \in 1..(i - 1) : fs[paths[j]].kind # "dir"
    ELSE Len(paths) + 1

\* C21: when creating the output directory or writing an artifact fails, the run ends
\* there with a non-zero exit code and without the success message; the failed write
\* is not retried and nothing after it is written (the entries stay as they were, and
\* the run counts as written only what was written before the failure); a generate run
\* that exits with code 0 has written every artifact of every configured module.
C21_WriteErrorsPropagate ==
    /\ [][(run.pc = "loop" /\ ~run.isCheck /\ Len(run'.irs) = Len(run.irs) + 1) =>
              LET outdir == run.config.modules[run.idx].outdir
                  paths == WritePaths(run'.irs[Len(run'.irs)], outdir,
                                      run.config.react # "false")
                  k == FirstFailure(outdir, paths)
              IN k <= Len(paths) =>
                     /\ run'.pc = "exited"
                     /\ run'.exitCode # 0
                     /\ run'.message # "Bridge files generated successfully."
                     /\ \A i \in DOMAIN paths : i >= k => fs'[paths[i]] = fs[paths[i]]
                     /\ k = 0 => fs'[outdir] = fs[outdir]
                     /\ run'.written = run.written \o SubSeq(paths, 1, k - 1)]_vars
    /\ [](run.pc = "exited" /\ ~run.isCheck /\ run.exitCode = 0 =>
              /\ run.message = "Bridge files generated successfully."
              /\ Len(run.irs) = Len(run.config.modules)
              /\ \A m \in DOMAIN run.irs :
                     LET paths == WritePaths(run.irs[m], run.config.modules[m].outdir,
                                             run.config.react # "false")
                     IN \A i \in DOMAIN paths :
                            /\ fs[paths[i]].kind = "file"
                            /\ \E w \in DOMAIN run.written : run.written[w] = paths[i])

\* a generate run has ended in failure at the second module, after the first module's
\* artifacts were written, because a directory has the name of an artifact
C21_Witness ==
    /\ run.pc = "exited" /\ ~run.isCheck /\ run.exitCode = 2
    /\ Len(run.irs) = 2
    /\ Len(run.written) >= 3
    /\ \E p \in ArtifactPaths : fs[p].kind = "dir" /\ Contains(p, "/bad.")

----------------------------------------------------------------------------
(* Checks without React hooks: SpecCheck *)

\* C22: a check made with generateReact = false compares the types file and the worker
\* file only: it fails exactly when one of these two cannot be read, otherwise its
\* outdatedFiles are the outdated ones of these two, in that order, and upToDate says
\* that there is none; the hooks path is never among them, whatever is at that path
\* (nothing, a stale file, the current file, or a directory).
C22_HooksIgnoredWithoutReact ==
    lastCheck.valid /\ ~lastCheck.generateReact =>
        LET name == lastCheck.outdir \o "/" \o lastCheck.ir.moduleName
            compared == OutdatedPaths(lastCheck.ir, lastCheck.outdir,
                                      lastCheck.workerOptions, FALSE)
        IN /\ lastCheck.thrown =
                  (\E k \in {".types.ts", ".worker.ts"} : fs[name \o k].kind = "dir")
           /\ ~lastCheck.thrown =>
                  /\ lastCheck.outdatedFiles = compared
                  /\ lastCheck.upToDate = (compared = <<>>)
           /\ \A i \in DOMAIN lastCheck.outdatedFiles :
                  lastCheck.outdatedFiles[i] # name \o ".hooks.ts"

\* a check without hooks has found the first module up to date while its hooks file
\* is stale
C22_Witness ==
    /\ lastCheck.valid /\ ~lastCheck.generateReact
    /\ lastCheck.ir.moduleName = "test"
    /\ lastCheck.upToDate
    /\ fs[lastCheck.outdir \o "/test.hooks.ts"] = File("// old content")

----------------------------------------------------------------------------
(* Configuration precedence: SpecConfig *)

\* an option of the command line that has a value
Given(v) == v # Undefined /\ v # ""

\* the run was started from what the user wrote in pin, and has a configuration
Configured == pin # NoInput /\ pin.fn = "main" /\ run.config # NoBridgeConfig

\* C23: the effective pyodideVersion, bundler and react are the command line's value
\* when the option is given (for a string option: with a non-empty value), otherwise
\* the config file's value, otherwise the default (react true, bundler vite), with a
\* config file and without one.
C23_Precedence ==
    Configured =>
        /\ run.config.pyodideVersion =
               IF Given(pin.args.pyodideVersion) THEN pin.args.pyodideVersion
               ELSE pin.file.pyodideVersion
        /\ run.config.bundler =
               IF Given(pin.args.bundler) THEN pin.args.bundler
               ELSE IF pin.file.present /\ pin.file.bundler # Undefined
               THEN pin.file.bundler
               ELSE "vite"
        /\ run.config.react =
               IF pin.args.react # Undefined THEN pin.args.react
               ELSE IF pin.file.present /\ pin.file.react # Undefined
               THEN pin.file.react
               ELSE "true"

\* a run is configured from a config file that says webpack and react false and a
\* command line that says inline and another version
C23_Witness ==
    /\ Configured
    /\ pin.file.present /\ pin.file.bundler = "webpack" /\ pin.file.react = "false"
    /\ pin.args.bundler = "inline" /\ pin.args.pyodideVersion = "0.27.5"
    /\ run.config.bundler = "inline" /\ run.config.react = "false"

\* C29: whenever a module is being processed or has been processed, the bundler
\* handed to the worker emitter is one of vite, webpack and inline: any other value,
\* from the config file or from --bundler, has ended the run with a
\* ConfigValidationError before.
C29_BundlerValidated ==
    (run.pc = "loop" \/ Len(run.irs) > 0) =>
        workerOptionsOf(run.config).bundler \in {"vite", "webpack", "inline"}

\* the module name the parser gives to an input file
ModuleNameOf(input) == IF input = TestPy THEN "test" ELSE "bad"

\* the config file of pin passes validation
ValidFile ==
    /\ pin.file.present
    /\ pin.file.pyodideVersion # Undefined
    /\ pin.file.modules # <<>>
    /\ pin.file.bundler \in {Undefined, "vite", "webpack", "inline"}

\* C30: with a config file the modules of the run are the file's modules, in the
\* file's order, whatever --input and --outdir say; without a config file the run has
\* the single module of --input and --outdir, and ends with a ConfigValidationError
\* exactly when one of --input, --outdir and --pyodide-version is missing; the modules
\* are processed in the order of the list, all of them in a run that meets no error.
C30_ModulesOfRun ==
    (pin # NoInput /\ pin.fn = "main") =>
        /\ ValidFile =>
               /\ run.message # "Config error"
               /\ run.config.modules = pin.file.modules
        /\ ~pin.file.present =>
               /\ (run.message = "Config error") =
                      (\/ ~Given(pin.args.input)
                       \/ ~Given(pin.args.outdir)
                       \/ ~Given(pin.args.pyodideVersion))
               /\ run.message # "Config error" =>
                      run.config.modules = <<ModuleConfig(pin.args.input, pin.args.outdir)>>
        /\ Len(run.irs) <= Len(run.config.modules)
        /\ \A i \in DOMAIN run.irs :
               run.irs[i].moduleName = ModuleNameOf(run.config.modules[i].input)
        /\ (run.pc = "exited" /\ run.exitCode = 0) =>
               Len(run.irs) = Len(run.config.modules)

\* a run started with a config file and with --input and --outdir has processed the
\* two modules of the file, in the file's order, and no other
C30_Witness ==
    /\ pin # NoInput /\ pin.fn = "main"
    /\ pin.file.present /\ pin.args.input = TestPy /\ pin.args.outdir = OutDir
    /\ run.pc = "exited" /\ run.exitCode = 0
    /\ Len(run.irs) = 2
    /\ run.irs[1].moduleName = "bad" /\ run.irs[2].moduleName = "test"

----------------------------------------------------------------------------
(* Map conversion: SpecConvert *)

\* the values directly inside a value
Children(v) ==
    IF v.t = "map" THEN {v.entries[i].v : i \in DOMAIN v.entries}
    ELSE IF v.t = "array" /\ "items" \in DOMAIN v THEN Range(v.items)
    ELSE IF v.t = "object" THEN {v.props[k] : k \in DOMAIN v.props}
    ELSE {}

\* v is a Map or has one inside, at any depth
RECURSIVE HasMap(_)
HasMap(v) == v.t = "map" \/ \E c \in Children(v) : HasMap(c)

\* v has a Map inside an object that is neither a Map nor an array
RECURSIVE MapInsideObject(_)
MapInsideObject(v) ==
    IF v.t = "object" THEN HasMap(v) ELSE \E c \in Children(v) : MapInsideObject(c)

\* out is what the conversion of in has to be
RECURSIVE Converted(_, _)
Converted(in, out) ==
    IF in.t = "map"
    THEN /\ out.t = "object"
         /\ DOMAIN out.props = {String(in.entries[i].k) : i \in DOMAIN in.entries}
         /\ \A i \in DOMAIN in.entries :
                (\A j \in DOMAIN in.entries :
                     String(in.entries[j].k) = String(in.entries[i].k) => j <= i)
                => Converted(in.entries[i].v, out.props[String(in.entries[i].k)])
    ELSE IF in.t = "array"
    THEN /\ out.t = "array"
         /\ Len(out.items) = Len(in.items)
         /\ \A i \in DOMAIN in.items : Converted(in.items[i], out.items[i])
    ELSE out = in

\* C25 as stated: the result of deepConvertMaps has no Map at any depth.
C25_NoMapAtAnyDepth ==
    (pin.fn = "deepConvertMaps" /\ pout.done) => ~HasMap(pout.value)

\* C25: deepConvertMaps converts the Maps it reaches through Maps and arrays: a Map
\* becomes an object whose keys are the strings of the Map's keys and whose values are
\* the converted values (of the last entry, where two keys have the same string), an
\* array keeps its length and order with its elements converted, and any other value,
\* a plain object with the Maps inside it included, is returned as it is; so the
\* result has a Map only when the argument has one inside a plain object.
C25_DeepConvert ==
    (pin.fn = "deepConvertMaps" /\ pout.done) =>
        /\ Converted(pin.value, pout.value)
        /\ HasMap(pout.value) => MapInsideObject(pin.value)

\* a Map that holds an array that holds a Map has been converted, and no Map is left
C25_Witness ==
    /\ pin.fn = "deepConvertMaps" /\ pout.done
    /\ pin.value.t = "map"
    /\ \E i \in DOMAIN pin.value.entries :
           /\ pin.value.entries[i].v.t = "array"
           /\ \E j \in DOMAIN pin.value.entries[i].v.items :
                  pin.value.entries[i].v.items[j].t = "map"
    /\ ~HasMap(pout.value)

----------------------------------------------------------------------------
(* The promise of parsePythonModule: SpecParser *)

\* everything the child prints to its stdout
WholeStdout == Concat(proc.child.out)

\* python3 was started, exited with code 0 and printed a JSON document
ParserSucceeded ==
    /\ proc.child.spawnError = ""
    /\ proc.child.code = "0"
    /\ WholeStdout \in DOMAIN JsonDocuments

\* C24: the promise of a parsePythonModule call is settled once, and never again: at
\* the latest when the child has closed; it is resolved, with what the printed JSON
\* parses to, exactly when python3 ran, exited with code 0 and printed valid JSON; it
\* is rejected with a PythonParseError that carries the input path exactly when
\* python3 ran and exited with another code or printed no valid JSON; and it is
\* rejected with PythonNotFoundError exactly when python3 was not found.
C24_SettlesOnce ==
    /\ [](proc.settlements <= 1 /\ (proc.promise = "pending") = (proc.settlements = 0))
    /\ [](proc.pc = "closed" =>
              /\ proc.settlements = 1
              /\ (proc.promise = "resolved") = ParserSucceeded
              /\ proc.promise = "resolved" => proc.value = JsonDocuments[WholeStdout]
              /\ (proc.promise = "PythonParseError") =
                     (proc.child.spawnError = "" /\ ~ParserSucceeded)
              /\ proc.promise = "PythonParseError" => proc.path = proc.inputPath
              /\ (proc.promise = "PythonNotFoundError") =
                     (proc.child.spawnError = "ENOENT"))
    /\ [][proc.promise # "pending" =>
              /\ proc'.promise = proc.promise
              /\ proc'.value = proc.value
              /\ proc'.path = proc.path
              /\ proc'.message = proc.message]_vars

\* python3 was not found: the promise was rejected with PythonNotFoundError when
\* 'error' was emitted, and 'close', with its non-zero code, has not changed it
C24_Witness ==
    /\ proc.pc = "closed"
    /\ proc.child.spawnError = "ENOENT" /\ proc.child.code # "0"
    /\ proc.promise = "PythonNotFoundError"
    /\ proc.settlements = 1

----------------------------------------------------------------------------
(* The Workers of usePyodide: SpecLifecycle *)

\* the Workers created so far
WorkersCreated ==
    (IF worker.id = 0 THEN {} ELSE {worker}) \cup {effects.old[i].worker : i \in DOMAIN effects.old}

\* C26: at most one Worker is alive at any time, across mount, retry, a change of
\* options.worker and unmount: the Worker of every effect that was cleaned up is
\* terminated and its proxy released, no Worker is alive after the unmount, and at the
\* step that creates the next Worker the previous one, if it was alive, is terminated
\* and its proxy released.
C26_OneLiveWorker ==
    /\ [](/\ Cardinality({w.id : w \in {x \in WorkersCreated : x.alive}}) <= 1
          /\ \A i \in DOMAIN effects.old :
                 ~effects.old[i].worker.alive /\ effects.old[i].worker.proxy = "released"
          /\ ~pyo.mounted => \A w \in WorkersCreated : ~w.alive /\ w.proxy = "released")
    /\ [][(worker'.id # worker.id /\ worker.alive) =>
              \E i \in DOMAIN effects'.old :
                  /\ effects'.old[i].worker.id = worker.id
                  /\ ~effects'.old[i].worker.alive
                  /\ effects'.old[i].worker.proxy = "released"]_vars

\* after a retry and a change of options.worker the component has unmounted: three
\* Workers were created and none is alive
C26_Witness ==
    /\ ~pyo.mounted
    /\ pyo.retryCount = 1 /\ effects.changes = 1
    /\ worker.id = 3 /\ ~worker.alive
    /\ Len(effects.old) = 2

\* what the component sees
Visible(p) == <<p.status, p.error, p.api>>

\* C27: a callback of an effect that was cleaned up (its ready microtask, an error
\* event of its Worker) changes none of status, error and api, also after the
\* unmount; the api, when there is one, is that of the Worker created last, which is
\* alive while the component is mounted.
C27_NoLateCallback ==
    /\ [][(effects'.old # effects.old /\ Len(effects'.old) = Len(effects.old)) =>
              Visible(pyo') = Visible(pyo)]_vars
    /\ [][pyo.cancelled => Visible(pyo') = Visible(pyo)]_vars
    /\ [](pyo.api # 0 => pyo.api = worker.id /\ (pyo.mounted => worker.alive))

\* the ready microtask of an effect that was cleaned up has run, and the state is
\* still that of the next effect: loading, its own microtask pending
C27_Witness ==
    /\ \E i \in DOMAIN effects.old :
           effects.old[i].ran > 0 /\ ~effects.old[i].closure.microtask
    /\ pyo.status = "loading" /\ pyo.api = 0
    /\ pyo.microtask /\ ~pyo.cancelled

\* C28: error is non-null exactly when status is 'error', and api is null whenever
\* status is 'loading'.
C28_ErrorIffStatusError ==
    /\ (pyo.error # "") = (pyo.status = "error")
    /\ pyo.status = "loading" => pyo.api = 0

\* after an error event that followed ready, and a retry, the hook is ready again
\* with no error
C28_Witness ==
    /\ pyo.status = "ready" /\ pyo.error = "" /\ pyo.api # 0
    /\ pyo.retryCount = 1
    /\ \E i, j \in DOMAIN hist.trail :
           i < j /\ hist.trail[i] = "ready" /\ hist.trail[j] = "error"

====
